---- MODULE Spec2Model ----
(***************************************************************************)
(* Ledger, loader and receipt pipeline of the personal-finance web app     *)
(* (src/unnamed/part_001, the App component).                              *)
(*                                                                         *)
(* The React component is modelled as a state machine.  A step is one      *)
(* event handler run up to its next `await`, or one continuation of an     *)
(* async function after an awaited remote call resolved; the state updates *)
(* a step queues are applied together at the end of the step (React        *)
(* batches them), functional updates against the latest state.             *)
(***************************************************************************)
EXTENDS Integers, Sequences, FiniteSets, Bags, TLC

----------------------------------------------------------------------------
(* Bounds of the model                                                     *)

\* page size of the loader; the source sets ITEMS_PER_PAGE = 25, the model
\* checks the same code with a scaled-down page
ITEMS_PER_PAGE == 2
\* rows of each remote collection when the app starts
MaxRows == 3
\* user events in one run (sign-in, sign-out, click, file selection); the
\* steps that follow from an event (responses, continuations) and the session
\* restored at startup are not counted
MaxEvents == 3
\* first value of Date.now(): a millisecond timestamp is far above any row id
Epoch == 100

----------------------------------------------------------------------------
(* Values                                                                  *)

NoUser == "none"
NoError == "none"
Users == {"A"}

\* a Date | null field: null, a valid Date (t = getTime()), or an Invalid
\* Date object (getTime() is NaN)
NullDate == [k |-> "null"]
InvalidDate == [k |-> "invalid"]
D(t) == [k |-> "date", t |-> t]

\* PendingItem.date (string | null) as the OCR provider returned it: absent,
\* a YYYY-MM-DD day, or text that Date cannot parse
NoReceiptDate == [k |-> "null"]
IsoDay(d) == [k |-> "iso", day |-> d]
JunkDate == [k |-> "junk"]

\* a string | null field.  A string whose content the code inspects (includes,
\* replace, trim) is the sequence of its words; Null is null or undefined
Null == [k |-> "null"]
Text(words) == [k |-> "text", words |-> words]

Min(a, b) == IF a < b THEN a ELSE b

Abs(n) == IF n < 0 THEN -n ELSE n

\* Number(text): the empty text is 0, a text of digits its value, anything
\* else NaN, for which IsNaN holds
Digits == {"0", "1", "2", "3", "4", "5", "6", "7", "8", "9"}
DigitValue(c) ==
  CASE c = "0" -> 0 [] c = "1" -> 1 [] c = "2" -> 2 [] c = "3" -> 3
    [] c = "4" -> 4 [] c = "5" -> 5 [] c = "6" -> 6 [] c = "7" -> 7
    [] c = "8" -> 8 [] OTHER -> 9
RECURSIVE DigitsValue(_, _)
DigitsValue(chars, acc) ==
  IF chars = <<>> THEN acc
  ELSE DigitsValue(Tail(chars), 10 * acc + DigitValue(Head(chars)))
AllDigits(chars) == \A i \in 1..Len(chars) : chars[i] \in Digits
Negative(chars) == Len(chars) > 1 /\ chars[1] = "-" /\ AllDigits(Tail(chars))
TextIsNaN(chars) == ~AllDigits(chars) /\ ~Negative(chars)
TextNumber(chars) ==
  IF Negative(chars) THEN 0 - DigitsValue(Tail(chars), 0)
  ELSE DigitsValue(chars, 0)

\* the bag holding x once
One(x) == SetToBag({x})

Ids(s) == {s[i].id : i \in 1..Len(s)}

----------------------------------------------------------------------------
(* The comparator and Array.prototype.sort                                 *)

\* a.date ? new Date(a.date).getTime() : 0   (valid or absent dates)
HasTime(t) == t.date.k # "invalid"
TimeKey(t) == IF t.date.k = "null" THEN 0 ELSE t.date.t

\* (a, b) => dateB - dateA; with an Invalid Date the difference is NaN, which
\* sort treats as +0
ByDateDesc(a, b) ==
  IF HasTime(a) /\ HasTime(b) THEN TimeKey(b) - TimeKey(a) ELSE 0

RECURSIVE InsertSorted(_, _)
\* one step of a stable insertion sort: e goes after the last element that
\* does not compare greater than it
InsertSorted(s, e) ==
  IF s = <<>> THEN <<e>>
  ELSE IF ByDateDesc(s[Len(s)], e) > 0
       THEN Append(InsertSorted(SubSeq(s, 1, Len(s) - 1), e), s[Len(s)])
       ELSE Append(s, e)

RECURSIVE SortFrom(_, _)
SortFrom(done, rest) ==
  IF rest = <<>> THEN done
  ELSE SortFrom(InsertSorted(done, Head(rest)), Tail(rest))

\* list.sort(byDateDesc): stable; equal to every stable sort when the
\* comparator is consistent.  With an Invalid Date in the list the comparator
\* is not consistent and the order is implementation-defined; the model
\* follows insertion sort, which is what V8 runs on short arrays.
SortByDate(s) == SortFrom(<<>>, s)

----------------------------------------------------------------------------
(* The remote store (external collaborator, seen through the queries the   *)
(* app issues)                                                             *)

\* rows the two collections hold when the app starts: row ids are serial in
\* each table, so the same id value occurs in both
ExpenseRow(i) ==
  [id |-> i, label |-> "Transaction", amount |-> -10,
   transaction_at |-> IF i = 2 THEN NullDate ELSE D(i)]
MpRow(i) ==
  [id |-> i, received_at |-> D(i + 1), amount |-> 10,
   type |-> Text(<<"payment", "sent">>), description |-> Null,
   category |-> Null, email_subject |-> Text(<<"Pagaste">>)]

\* sizes <<expenses, transactions>> of the two collections at startup: one
\* of them spans more than a page, the other is less than a page
RemoteSizes == {<<MaxRows, 1>>, <<1, MaxRows>>}

RowKey(d) == IF d.k = "null" THEN 0 ELSE d.t

RECURSIVE OrderRows(_, _)
\* .order(col, { ascending: false }): newest first, rows of equal time by id
OrderRows(rows, col) ==
  IF rows = {} THEN <<>>
  ELSE LET first == CHOOSE r \in rows : \A q \in rows :
                      \/ RowKey(r[col]) > RowKey(q[col])
                      \/ RowKey(r[col]) = RowKey(q[col]) /\ r.id >= q.id
       IN  <<first>> \o OrderRows(rows \ {first}, col)

\* .range(offset, offset + ITEMS_PER_PAGE - 1)
Range(ordered, offset) ==
  SubSeq(ordered, offset + 1, Min(Len(ordered), offset + ITEMS_PER_PAGE))

----------------------------------------------------------------------------
(* Mapping of raw rows to the canonical Transaction                        *)

\* mappedExpenses: id: String(row.id), label, amount: Number(row.amount),
\* date from transaction_at
MapExpense(row) ==
  [id |-> ToString(row.id), label |-> row.label, amount |-> row.amount,
   date |-> row.transaction_at]

\* words.join(' ')
RECURSIVE Join(_)
Join(words) ==
  IF words = <<>> THEN ""
  ELSE IF Len(words) = 1 THEN words[1]
       ELSE words[1] \o " " \o Join(Tail(words))

\* text?.includes(word), for a word of the text
Includes(text, word) ==
  text.k = "text" /\ \E i \in 1..Len(text.words) : text.words[i] = word

\* word.toLowerCase() and, for the first letter, toUpperCase(), over the
\* words that occur in message subjects
LowerCase(word) ==
  CASE word = "Enviada" -> "enviada"
    [] word = "Pagaste" -> "pagaste"
    [] word = "Fwd:" -> "fwd:"
    [] word = "Tu" -> "tu"
    [] word = "Pago" -> "pago"
    [] OTHER -> word
Capitalize(word) ==
  CASE word = "enviada" -> "Enviada"
    [] word = "pagaste" -> "Pagaste"
    [] word = "pago" -> "Pago"
    [] word = "tu" -> "Tu"
    [] OTHER -> word
LowerText(text) ==
  IF text.k = "text"
    THEN Text([i \in 1..Len(text.words) |-> LowerCase(text.words[i])])
    ELSE text

\* categoryMapping and transactionTypeLabels are object literals: a lookup by
\* a name that every object inherits from Object.prototype finds that
\* member, which is truthy and has neither label nor icon
InheritedNames == {"constructor", "toString"}
Undefined == "undefined"

\* categoryMapping[category]?.label
CategoryLabel(category) ==
  CASE category = Text(<<"food-dining">>) -> "Food & Dining"
    [] category = Text(<<"transportation">>) -> "Transportation"
    [] category.k = "text" /\ Join(category.words) \in InheritedNames ->
         Undefined
    [] OTHER -> ""
HasCategory(category) == CategoryLabel(category) # ""

\* transactionTypeLabels[type]?.label
TypeLabel(type) ==
  CASE type = Text(<<"transfer", "sent">>) -> "Transferencia enviada"
    [] type = Text(<<"transfer", "received">>) -> "Transferencia recibida"
    [] type = Text(<<"payment", "sent">>) -> "Pago realizado"
    [] type = Text(<<"payment", "received">>) -> "Pago recibido"
    [] type = Text(<<"deposit">>) -> "Deposito"
    [] type = Text(<<"withdrawal">>) -> "Retiro"
    [] type = Text(<<"refund", "received">>) -> "Reembolso recibido"
    [] type = Text(<<"refund", "sent">>) -> "Reembolso enviado"
    [] OTHER -> ""
HasTypeLabel(type) == TypeLabel(type) # ""

\* normalizeEmailSubject: one leading Fwd:/Re:/FW: prefix removed, then a
\* leading Tu/Your, trimmed, first letter capitalized; "" stands for null
EmailPrefixes == {"fwd:", "re:", "fw:"}
WithoutPrefix(words) ==
  IF words # <<>> /\ LowerCase(words[1]) \in EmailPrefixes
    THEN Tail(words) ELSE words
WithoutTu(words) ==
  IF Len(words) > 1 /\ LowerCase(words[1]) \in {"tu", "your"}
    THEN Tail(words) ELSE words
NormalizeEmailSubject(subject) ==
  IF subject.k # "text" \/ subject.words = <<>> THEN ""
  ELSE LET clean == WithoutTu(WithoutPrefix(subject.words))
       IN  IF clean = <<>> THEN ""
           ELSE Join(<<Capitalize(clean[1])>> \o Tail(clean))

\* a label that would put the transaction type before the description and
\* the category (what C16 excludes)
MpLabelByTypeFirst(row) ==
  IF HasTypeLabel(row.type) THEN TypeLabel(row.type)
  ELSE IF row.description.k = "text" /\ Join(row.description.words) # ""
    THEN Join(row.description.words)
  ELSE IF HasCategory(row.category) THEN CategoryLabel(row.category)
  ELSE IF NormalizeEmailSubject(row.email_subject) # ""
    THEN NormalizeEmailSubject(row.email_subject)
  ELSE "Mercado Pago"

\* the label of a message-derived record, by priority
MpLabel(row) ==
  IF row.description.k = "text" /\ Join(row.description.words) # ""
    THEN Join(row.description.words)
  ELSE IF HasCategory(row.category) THEN CategoryLabel(row.category)
  ELSE IF HasTypeLabel(row.type) THEN TypeLabel(row.type)
  ELSE IF NormalizeEmailSubject(row.email_subject) # ""
    THEN NormalizeEmailSubject(row.email_subject)
  ELSE "Mercado Pago"

\* isOutgoing
IsOutgoing(row) ==
  \/ Includes(row.type, "sent")
  \/ Includes(row.type, "payment")
  \/ Includes(row.type, "withdrawal")
  \/ Includes(LowerText(row.email_subject), "enviada")
  \/ Includes(LowerText(row.email_subject), "pagaste")

\* an amount that would keep the stored sign for incoming records (what
\* C14 excludes)
MpAmountAsStored(row) ==
  IF IsOutgoing(row) THEN -Abs(row.amount) ELSE row.amount

\* amount = isOutgoing ? -Math.abs(Number(row.amount)) : Math.abs(...)
MpAmount(row) == IF IsOutgoing(row) THEN -Abs(row.amount) ELSE Abs(row.amount)

\* mappedMp: id: `mp_${row.id}`, label, amount, date from received_at
MapMp(row) ==
  [id |-> "mp_" \o ToString(row.id), label |-> MpLabel(row),
   amount |-> MpAmount(row), date |-> row.received_at]

MappedExpenses(data) == [i \in 1..Len(data) |-> MapExpense(data[i])]
MappedMp(data) == [i \in 1..Len(data) |-> MapMp(data[i])]

\* prev.filter(item => keep(item)) for keep given as the set of ids kept out
RECURSIVE WithoutIds(_, _)
WithoutIds(s, ids) ==
  IF s = <<>> THEN <<>>
  ELSE IF Head(s).id \in ids THEN WithoutIds(Tail(s), ids)
       ELSE <<Head(s)>> \o WithoutIds(Tail(s), ids)

\* a loader that would drop the manual page from the merge (what C5 excludes)
AllTransactionsMpOnly(mappedExpenses, mappedMp) == SortByDate(mappedMp)

\* [...mappedExpenses, ...mappedMp].sort(byDateDesc)
AllTransactions(mappedExpenses, mappedMp) ==
  SortByDate(mappedExpenses \o mappedMp)

\* a loader that would ask both sources for a full page (what C7 excludes)
HasMoreIfBothFull(mappedExpenses, mappedMp) ==
  Len(mappedExpenses) = ITEMS_PER_PAGE /\ Len(mappedMp) = ITEMS_PER_PAGE

\* mappedExpenses.length === ITEMS_PER_PAGE || mappedMp.length === ITEMS_PER_PAGE
HasMore(mappedExpenses, mappedMp) ==
  Len(mappedExpenses) = ITEMS_PER_PAGE \/ Len(mappedMp) = ITEMS_PER_PAGE

\* the functional update of a non-reset load: keep prev, add the page's items
\* whose id prev does not have, sort
MergePage(prev, allTransactions) ==
  SortByDate(prev \o WithoutIds(allTransactions, Ids(prev)))

\* what a finished load sets the ledger to
Merged(prev, reset, allTransactions) ==
  IF reset THEN allTransactions ELSE MergePage(prev, allTransactions)

----------------------------------------------------------------------------
(* The persisted snapshot: JSON.stringify and JSON.parse                   *)

\* values of a JSON document: null, an ISO date string (t its time), a
\* string no Date can be made of, an object with its fields
JsonNull == [k |-> "null"]
JsonDate(t) == [k |-> "isodate", t |-> t]
JsonJunk == [k |-> "string"]
Obj(fields) == [k |-> "object", fields |-> fields]

\* what localStorage holds under the key: nothing, text that is no JSON, a
\* JSON value that is no array, an array
Missing == [k |-> "missing"]
Unparsable == [k |-> "unparsable"]
NotAList == [k |-> "notalist"]
JsonList(items) == [k |-> "list", items |-> items]

\* Date.prototype.toJSON: the ISO string, null for an Invalid Date
ToJSON(date) == IF date.k = "date" THEN JsonDate(date.t) ELSE JsonNull

\* JSON.stringify(transactionsList)
Stringify(item) ==
  Obj([f \in DOMAIN item |-> IF f = "date" THEN ToJSON(item[f]) ELSE item[f]])
Serialize(list) == JsonList([i \in 1..Len(list) |-> Stringify(list[i])])

\* t.date ? new Date(t.date) : null
FromJSON(fields) ==
  IF "date" \notin DOMAIN fields \/ fields.date.k = "null" THEN NullDate
  ELSE IF fields.date.k = "isodate" THEN D(fields.date.t)
  ELSE InvalidDate

\* ({ ...t, date: ... })
Revive(entry) ==
  [f \in DOMAIN entry.fields \cup {"date"} |->
     IF f = "date" THEN FromJSON(entry.fields) ELSE entry.fields[f]]

\* reading t.date of a null entry throws
HydrationThrows(value) ==
  \/ value.k = "unparsable"
  \/ value.k = "list" /\ \E i \in 1..Len(value.items) : value.items[i].k = "null"

\* loadCachedTransactions: the ledger updates it queues -- one, for an
\* array that maps without an exception, otherwise none
LoadCachedTransactions(value) ==
  IF value.k = "list" /\ ~HydrationThrows(value)
    THEN <<[i \in 1..Len(value.items) |-> Revive(value.items[i])]>>
    ELSE <<>>

\* a snapshot an earlier session has left
EarlierLedger ==
  <<[id |-> "7", label |-> "Transaction", amount |-> -10, date |-> D(7)]>>
\* an array entry that is an object but no transaction: it lacks the
\* fields a render reads
NotATransaction == Obj([foo |-> 1])
\* what the key may hold at startup: nothing, a snapshot, or a value
\* something else has left there
PersistedValues ==
  { Missing,
    Serialize(EarlierLedger),
    Unparsable,
    NotAList,
    JsonList(<<JsonNull>>),
    JsonList(<<NotATransaction>>),
    JsonList(Serialize(EarlierLedger).items \o <<NotATransaction>>) }

----------------------------------------------------------------------------
(* Budgets: the persisted list and its updates                             *)

\* JSON.stringify(budgets): an array of objects { categoryId, limit }
StringifyBudgets(list) == JsonList([i \in 1..Len(list) |-> Obj(list[i])])

\* a load effect that finds no budget
NothingSaved(value) == <<>>

\* the load effect: if (savedBudgets) setBudgets(JSON.parse(savedBudgets)),
\* the state staying [] when the key holds nothing
LoadBudgets(value) ==
  IF value.k = "list"
    THEN [i \in 1..Len(value.items) |-> value.items[i].fields]
    ELSE <<>>

\* prev.findIndex(b => b.categoryId === categoryId), 0 for -1
FindIndex(prev, categoryId) ==
  IF \E i \in 1..Len(prev) : prev[i].categoryId = categoryId
    THEN CHOOSE i \in 1..Len(prev) :
           /\ prev[i].categoryId = categoryId
           /\ \A j \in 1..(i - 1) : prev[j].categoryId # categoryId
    ELSE 0

\* an update that appends whether or not the category has a budget
AppendBudget(prev, categoryId, limit) ==
  Append(prev, [categoryId |-> categoryId, limit |-> limit])

\* the updater of saveBudget: the entry of the category is replaced in
\* place, or the new entry appended
SaveBudget(prev, categoryId, limit) ==
  IF FindIndex(prev, categoryId) > 0
    THEN [prev EXCEPT ![FindIndex(prev, categoryId)] =
            [categoryId |-> categoryId, limit |-> limit]]
    ELSE Append(prev, [categoryId |-> categoryId, limit |-> limit])

\* the updater of removeBudget: prev.filter(b => b.categoryId !== categoryId)
RECURSIVE RemoveBudget(_, _)
RemoveBudget(prev, categoryId) ==
  IF prev = <<>> THEN <<>>
  ELSE IF Head(prev).categoryId # categoryId
         THEN <<Head(prev)>> \o RemoveBudget(Tail(prev), categoryId)
         ELSE RemoveBudget(Tail(prev), categoryId)

\* budgets.find(b => b.categoryId === categoryId) finds one
HasBudget(list, categoryId) == FindIndex(list, categoryId) > 0

----------------------------------------------------------------------------
(* Local time: instants in half seconds from 1 January 2026, 00:00:00, and  *)
(* months counted from January 2026                                        *)

TicksPerDay == 2 * 24 * 60 * 60

\* getFullYear() and getMonth() of the first day of month m
YearOf(m) == 2026 + (m \div 12)
MonthIndex(m) == m % 12

IsLeap(y) == (y % 4 = 0 /\ y % 100 # 0) \/ y % 400 = 0
DaysInMonth(m) ==
  CASE MonthIndex(m) = 1 -> IF IsLeap(YearOf(m)) THEN 29 ELSE 28
    [] MonthIndex(m) \in {3, 5, 8, 10} -> 30
    [] OTHER -> 31

\* the days from 1 January 2026 to the first day of month m
RECURSIVE DaysBefore(_)
DaysBefore(m) ==
  IF m = 0 THEN 0
  ELSE IF m > 0 THEN DaysBefore(m - 1) + DaysInMonth(m - 1)
  ELSE DaysBefore(m + 1) - DaysInMonth(m)

\* new Date(year, month, 1)
StartOfMonth(m) == DaysBefore(m) * TicksPerDay

\* an end of month that is the instant before the next month starts
LastInstant(m) == StartOfMonth(m + 1) - 1

\* new Date(year, month + 1, 0, 23, 59, 59): the last day, 23:59:59.000
EndOfMonth(m) == StartOfMonth(m + 1) - 2

\* the month an instant lies in
MonthOf(t) ==
  CHOOSE m \in -12..23 : StartOfMonth(m) <= t /\ t < StartOfMonth(m + 1)

\* getDay(): 1 January 2026 is a Thursday
GetDay(t) == (4 + (t \div TicksPerDay)) % 7

\* day d of month m, n half seconds after midnight
At(m, d, n) == StartOfMonth(m) + (d - 1) * TicksPerDay + n

----------------------------------------------------------------------------
(* Analytics                                                               *)

\* a label by its pieces: a blank, or a run of other characters
Blank == " "
RECURSIVE TrimStart(_)
TrimStart(label) ==
  IF label # <<>> /\ Head(label) = Blank THEN TrimStart(Tail(label))
  ELSE label
RECURSIVE TrimEnd(_)
TrimEnd(label) ==
  IF label # <<>> /\ label[Len(label)] = Blank
    THEN TrimEnd(SubSeq(label, 1, Len(label) - 1))
    ELSE label
\* t.label.trim()
Trim(label) == TrimEnd(TrimStart(label))

\* reduce((sum, t) => sum + t.amount, 0)
RECURSIVE SumOf(_)
SumOf(txs) == IF txs = <<>> THEN 0 ELSE Head(txs).amount + SumOf(Tail(txs))

IsExpense(t) == t.amount < 0
IsIncome(t) == t.amount > 0

\* txDate >= start && txDate <= end, after if (!t.date) return false; a
\* comparison with an Invalid Date is false
Within(t, start, end) ==
  t.date.k = "date" /\ t.date.t >= start /\ t.date.t <= end

\* the filter of a month: startOfMonth..endOfMonth
InMonth(t, m) == Within(t, StartOfMonth(m), EndOfMonth(m))

\* getMonthlySpendingData(transactions, monthsBack), now being new Date()
GetMonthlySpendingData(transactions, monthsBack, now) ==
  [j \in 1..monthsBack |->
     LET m == MonthOf(now) - (monthsBack - j)
         monthTx == SelectSeq(transactions, LAMBDA t : InMonth(t, m))
     IN [monthIndex |-> MonthIndex(m),
         year |-> YearOf(m),
         expenses |-> Abs(SumOf(SelectSeq(monthTx, IsExpense))),
         income |-> SumOf(SelectSeq(monthTx, IsIncome)),
         transactionCount |-> Len(monthTx)]]

\* Math.round(n / d) for d > 0: halves go up, also below zero
RoundSigned(n, d) == (2 * n + d) \div (2 * d)

\* a percentage that divides whatever the previous sum is; a division by
\* zero shown as 0 - 1
Unguarded(change, previous) ==
  IF previous = 0 THEN 0 - 1 ELSE RoundSigned(change * 100, previous)

\* prevMonthExpenses > 0 ? Math.round((change / prevMonthExpenses) * 100) : 0
ChangePercent(change, previous) ==
  IF previous > 0 THEN RoundSigned(change * 100, previous) ELSE 0

\* getMonthComparison(transactions)
GetMonthComparison(transactions, now) ==
  LET m == MonthOf(now)
      current ==
        Abs(SumOf(SelectSeq(transactions,
                            LAMBDA t : InMonth(t, m) /\ IsExpense(t))))
      previous ==
        Abs(SumOf(SelectSeq(transactions,
                            LAMBDA t : InMonth(t, m - 1) /\ IsExpense(t))))
  IN [current |-> current, previous |-> previous,
      change |-> current - previous,
      changePercent |-> ChangePercent(current - previous, previous)]

\* t.date > last: false when either is an Invalid Date
Later(date, last) == date.k = "date" /\ last.k = "date" /\ date.t > last.t

\* merchantMap[name] finds an entry: one put there, or, for a name every
\* object inherits, what Object.prototype holds under it
Inherited(name) == Len(name) = 1 /\ name[1] \in InheritedNames

\* the index of the entry of a name, 0 when there is none
EntryOf(entries, name) ==
  IF \E i \in 1..Len(entries) : entries[i].name = name
    THEN CHOOSE i \in 1..Len(entries) : entries[i].name = name
    ELSE 0

\* the forEach of getTopMerchants over one transaction: the entry is
\* created when merchantMap[name] is falsy, then added to; under an
\* inherited name the additions go to the inherited object and
\* merchantMap gets no entry
AddToMerchant(entries, t) ==
  LET name == Trim(t.label)
      i == EntryOf(entries, name)
      old == IF i > 0 THEN entries[i]
             ELSE [name |-> name, totalAmount |-> 0, transactionCount |-> 0,
                   lastTransaction |-> NullDate]
      new == [name |-> name,
              totalAmount |-> old.totalAmount + Abs(t.amount),
              transactionCount |-> old.transactionCount + 1,
              lastTransaction |->
                IF old.lastTransaction.k = "null"
                     \/ (t.date.k # "null" /\ Later(t.date, old.lastTransaction))
                  THEN t.date ELSE old.lastTransaction]
  IN IF Inherited(name) THEN entries
     ELSE IF i > 0 THEN [entries EXCEPT ![i] = new]
     ELSE Append(entries, new)

RECURSIVE MerchantMap(_, _)
MerchantMap(txs, entries) ==
  IF txs = <<>> THEN entries
  ELSE MerchantMap(Tail(txs), AddToMerchant(entries, Head(txs)))

\* sort((a, b) => b.totalAmount - a.totalAmount), stable
RECURSIVE InsertByTotal(_, _)
InsertByTotal(s, e) ==
  IF s = <<>> THEN <<e>>
  ELSE IF e.totalAmount - s[Len(s)].totalAmount > 0
       THEN Append(InsertByTotal(SubSeq(s, 1, Len(s) - 1), e), s[Len(s)])
       ELSE Append(s, e)
RECURSIVE SortByTotal(_, _)
SortByTotal(done, rest) ==
  IF rest = <<>> THEN done
  ELSE SortByTotal(InsertByTotal(done, Head(rest)), Tail(rest))

\* a ranking that is not cut
Uncut(sorted, limit) == sorted

\* slice(0, limit)
Slice(sorted, limit) == SubSeq(sorted, 1, Min(limit, Len(sorted)))

\* getTopMerchants(transactions, limit)
GetTopMerchants(transactions, limit) ==
  Slice(SortByTotal(<<>>,
                    MerchantMap(SelectSeq(transactions, IsExpense), <<>>)),
        limit)

\* the transactions getDayOfWeekPatterns buckets: amount < 0 && t.date
Bucketed(transactions) ==
  SelectSeq(transactions, LAMBDA t : IsExpense(t) /\ t.date.k # "null")

\* getDay() of an Invalid Date is NaN, dayData[NaN] is undefined, and
\* reading its total throws
DayPatternsThrow(transactions) ==
  \E i \in 1..Len(Bucketed(transactions)) :
    Bucketed(transactions)[i].date.k # "date"

\* total / count as a fraction, 0 for an empty slot
Mean(total, count) ==
  IF count > 0 THEN [n |-> total, d |-> count] ELSE [n |-> 0, d |-> 1]

\* getDayOfWeekPatterns(transactions), when it returns
GetDayOfWeekPatterns(transactions) ==
  [j \in 1..7 |->
     LET ofDay == SelectSeq(Bucketed(transactions),
                            LAMBDA t : GetDay(t.date.t) = j - 1)
     IN [dayIndex |-> j - 1,
         totalAmount |-> Abs(SumOf(ofDay)),
         transactionCount |-> Len(ofDay),
         averageAmount |-> Mean(Abs(SumOf(ofDay)), Len(ofDay))]]

\* the overview before its first render, and a render that threw
NotRendered == [k |-> "none"]
Thrown == [k |-> "thrown"]

----------------------------------------------------------------------------
(* State                                                                   *)

VARIABLES
  configured,           \* isSupabaseConfigured && supabase (fixed per build)
  user,                 \* useState<User | null>
  transactionsList,     \* the ledger
  hasMoreTransactions,
  isLoadingMore,
  pendingItems,         \* staged receipt items
  isOcrModalVisible,
  clock,                \* Date.now()
  expenses,             \* remote collection of manual entries
  mpRows,               \* remote collection 'transactions' (parsed messages)
  nextId,               \* next serial id of the expenses collection
  loads,                \* calls of loadTransactions awaiting a fetch (a bag)
  inserts,              \* calls of addManualExpense awaiting the insert (a bag)
  commits,              \* calls of addOcrExpenses awaiting the batch insert
  deletes,              \* calls of deleteExpense awaiting the remote delete
  events,               \* user events so far
  mounted,              \* the effects of the first render have run
  cache,                \* localStorage[TRANSACTIONS_CACHE_KEY]
  isOcrLoading,
  ocrError,             \* the message shown in the review modal, or NoError
  scans,                \* calls of handleFileUpload awaiting the extraction
  isSettingsModalVisible,
  geminiApiKey,         \* the OCR credential is set (a non-empty string)
  localKey,             \* localStorage[GEMINI_API_KEY_STORAGE] holds one
  keyLoads,             \* calls of loadGeminiApiKey awaiting the settings,
                        \* each by the user it was made for
  keyOf,                \* whose key the state holds (NoUser: none, or one
                        \* typed in with nobody signed in)
  localOf,              \* whose key the local copy is
  manualAmount,         \* the amount field of the manual form, by its characters
  budgets,              \* useState<Budget[]>
  budgetStore,          \* localStorage[BUDGETS_STORAGE_KEY]
  overview              \* what the last render of the overview computed

vars == <<configured, user, transactionsList, hasMoreTransactions,
          isLoadingMore, pendingItems, isOcrModalVisible, clock, expenses,
          mpRows, nextId, loads, inserts, commits, deletes, events, mounted,
          cache, isOcrLoading, ocrError, scans, isSettingsModalVisible,
          geminiApiKey, localKey, keyLoads, keyOf, localOf, manualAmount,
          budgets, budgetStore, overview>>

remote == <<expenses, mpRows, nextId>>
ocr == <<pendingItems, isOcrModalVisible>>
paging == <<hasMoreTransactions, isLoadingMore>>
capture == <<isOcrLoading, ocrError, scans, isSettingsModalVisible>>
credential == <<geminiApiKey, localKey, keyLoads, keyOf, localOf>>
budgeting == <<budgets, budgetStore>>

\* isSupabaseConfigured && supabase && user
Online == configured /\ user # NoUser

\* the app screen is rendered (not the auth screen)
AppScreen == ~configured \/ user # NoUser

\* a user event: counted against the bound of the run
UserEvent == mounted /\ events < MaxEvents /\ events' = events + 1

\* the state of the first render, whatever the budget key holds
Fresh ==
  /\ configured \in BOOLEAN
  /\ user = NoUser
  /\ transactionsList = <<>>
  /\ hasMoreTransactions = TRUE
  /\ isLoadingMore = FALSE
  /\ pendingItems = <<>>
  /\ isOcrModalVisible = FALSE
  /\ clock = Epoch
  /\ \E n \in (IF configured THEN RemoteSizes ELSE {<<0, 0>>}) :
     LET nE == n[1]
         nM == n[2]
     IN
       /\ expenses = {ExpenseRow(i) : i \in 1..nE}
       /\ mpRows = {MpRow(i) : i \in 1..nM}
       /\ nextId = nE + 1
  /\ loads = EmptyBag
  /\ inserts = EmptyBag
  /\ commits = {}
  /\ deletes = {}
  /\ events = 0
  /\ mounted = FALSE
  /\ cache \in PersistedValues
  /\ isOcrLoading = FALSE
  /\ ocrError = NoError
  /\ scans = 0
  /\ isSettingsModalVisible = FALSE
  /\ geminiApiKey = FALSE
  /\ localKey = FALSE
  /\ keyLoads = EmptyBag
  /\ keyOf = NoUser
  /\ localOf = NoUser
  /\ manualAmount = <<>>
  /\ budgets = <<>>
  /\ overview = NotRendered

\* a first run: no budget has been saved
Init == Fresh /\ budgetStore = Missing

\* a cache effect that would add to what the key holds (what C12 excludes)
MergeThrough ==
  cache' = JsonList(Serialize(transactionsList').items \o
                    (IF cache.k = "list" THEN cache.items ELSE <<>>))

\* the cache effect after a render with a new ledger
WriteThrough == cache' = Serialize(transactionsList')

\* the effect on [budgets] after a render with a new list
SaveBudgets == budgetStore' = StringifyBudgets(budgets')

----------------------------------------------------------------------------
(* The effects of the first render                                         *)

\* the state a batch of queued updates leaves: the last one wins
LastOf(updates, current) ==
  IF updates = <<>> THEN current ELSE updates[Len(updates)]

\* in order: loadCachedTransactions() queues the hydrated ledger;
\* loadGeminiApiKey(), with user still null, clears the credential; the effect
\* on [user], with user still null, queues [] and hasMore = true; the cache
\* effect writes the ledger of the first render; the budget effects queue
\* the saved budgets and write the list of the first render; the batch is
\* applied and the cache and budget effects write the new ledger and list
Mount ==
  /\ ~mounted
  /\ mounted' = TRUE
  /\ transactionsList' =
       LastOf(LoadCachedTransactions(cache) \o << <<>> >>, transactionsList)
  /\ hasMoreTransactions' = TRUE
  /\ WriteThrough
  /\ geminiApiKey' = FALSE
  /\ keyOf' = NoUser
  /\ budgets' = LoadBudgets(budgetStore)
  /\ SaveBudgets
  /\ UNCHANGED <<configured, overview, manualAmount, capture, localKey, localOf, keyLoads, user, isLoadingMore, ocr, clock, remote, loads,
                 inserts, commits, deletes, events>>

----------------------------------------------------------------------------
(* Auth listener and the effect on [user]                                  *)

\* loadTransactions up to its first await: the guard, the offset, the first
\* fetch issued.  more = called by loadMoreTransactions; deleted collects
\* the ids deleted while the call is in flight.
NewLoad(reset, more) ==
  [reset |-> reset, more |-> more, pc |-> "expenses",
   offset |-> IF reset THEN 0 ELSE Len(transactionsList),
   expensesData |-> <<>>, deleted |-> {}]

\* getSession() resolves at startup with a stored session: setUser, and the
\* effects run loadGeminiApiKey() and loadTransactions()
RestoreSession(u) ==
  /\ mounted
  /\ configured
  /\ user = NoUser
  /\ events = 0
  /\ loads = EmptyBag
  /\ user' = u
  /\ loads' = One(NewLoad(TRUE, FALSE))
  /\ keyLoads' = keyLoads (+) One(u)
  /\ UNCHANGED <<configured, overview, budgeting, manualAmount, capture, geminiApiKey, keyOf, localKey, localOf, mounted, cache, transactionsList, paging, ocr, clock, remote,
                 inserts, commits, deletes, events>>

\* onAuthStateChange with a session (sign-in, token refresh): setUser with
\* a new user object, and the effect runs loadTransactions()
SignIn(u) ==
  /\ configured
  /\ UserEvent
  /\ user' = u
  /\ loads' = loads (+) One(NewLoad(TRUE, FALSE))
  /\ keyLoads' = keyLoads (+) One(u)
  /\ UNCHANGED <<configured, overview, budgeting, manualAmount, capture, geminiApiKey, keyOf, localKey, localOf, mounted, cache, transactionsList, paging, ocr, clock, remote,
                 inserts, commits, deletes>>

\* setUser(null): the effects clear the credential and empty the ledger
SignOut ==
  /\ UserEvent
  /\ configured
  /\ user # NoUser
  /\ user' = NoUser
  /\ transactionsList' = <<>>
  /\ hasMoreTransactions' = TRUE
  /\ WriteThrough
  /\ geminiApiKey' = FALSE
  /\ keyOf' = NoUser
  /\ UNCHANGED <<configured, overview, budgeting, manualAmount, capture, localKey, localOf, keyLoads, mounted, isLoadingMore, ocr, clock, remote, loads,
                 inserts, commits, deletes>>

----------------------------------------------------------------------------
(* The OCR credential: loadGeminiApiKey and saveGeminiApiKey               *)

\* the settings query of loadGeminiApiKey resolves.  "found": a row with a
\* key, as any device of the user may have stored one; "none": no key or an
\* error result, state and local copy are cleared; "threw": the local copy
\* is used, if there is one
KeyOutcomes == {"found", "none", "threw"}
KeyLoadedFor(u, outcome) ==
  /\ BagIn(u, keyLoads)
  /\ keyLoads' = keyLoads (-) One(u)
  /\ geminiApiKey' = CASE outcome = "found" -> TRUE
                       [] outcome = "none" -> FALSE
                       [] OTHER -> (localKey \/ geminiApiKey)
  /\ keyOf' = CASE outcome = "found" -> u
                [] outcome = "none" -> NoUser
                [] OTHER -> IF localKey THEN localOf ELSE keyOf
  /\ localKey' = CASE outcome = "found" -> TRUE
                   [] outcome = "none" -> FALSE
                   [] OTHER -> localKey
  /\ localOf' = CASE outcome = "found" -> u
                  [] outcome = "none" -> NoUser
                  [] OTHER -> localOf
  /\ UNCHANGED <<configured, overview, budgeting, manualAmount, capture, mounted, cache, user,
                 transactionsList, paging, ocr, clock, remote, loads, inserts,
                 commits, deletes, events>>

\* any of the calls awaiting the settings query
KeyLoaded(outcome) == \E u \in BagToSet(keyLoads) : KeyLoadedFor(u, outcome)

\* Save in the settings modal with a key typed in: stored remotely when
\* online (a failure there is only logged), then locally and in the state
SaveGeminiApiKey ==
  /\ UserEvent
  /\ AppScreen
  /\ localKey' = TRUE
  /\ geminiApiKey' = TRUE
  /\ keyOf' = user
  /\ localOf' = user
  /\ UNCHANGED <<configured, overview, budgeting, manualAmount, capture, keyLoads, mounted, cache, user,
                 transactionsList, paging, ocr, clock, remote, loads, inserts,
                 commits, deletes>>

----------------------------------------------------------------------------
(* loadMoreTransactions and loadTransactions                               *)

\* a guard without the in-flight flag (what C4 excludes)
IgnoredWhenExhausted == ~hasMoreTransactions

\* the guard of loadMoreTransactions
LoadMoreIgnored == isLoadingMore \/ ~hasMoreTransactions

LoadMore ==
  /\ UserEvent
  /\ AppScreen
  /\ IF LoadMoreIgnored \/ ~Online
       \* ignored; or (not online) loadTransactions returns at its guard and
       \* finally clears the flag again
       THEN UNCHANGED <<isLoadingMore, loads>>
       ELSE /\ isLoadingMore' = TRUE
            /\ loads' = loads (+) One(NewLoad(FALSE, TRUE))
  /\ UNCHANGED <<configured, overview, budgeting, manualAmount, capture, credential, mounted, cache, user, transactionsList, hasMoreTransactions, ocr,
                 clock, remote, inserts, commits, deletes>>

\* a load-more whose caller has no finally: the flag is left as it is
FlagLeft(l) == isLoadingMore

\* the load is over: finally { setIsLoadingMore(false) } of its caller
FlagAfter(l) == IF l.more THEN FALSE ELSE isLoadingMore

\* a failed load that would empty the ledger (what C6 excludes)
FailedAndEmptied(l) ==
  /\ l.pc = "expenses"
  /\ loads' = loads (-) One(l)
  /\ isLoadingMore' = FlagAfter(l)
  /\ transactionsList' = <<>>
  /\ WriteThrough
  /\ UNCHANGED <<configured, overview, budgeting, manualAmount, capture, credential, mounted, user, hasMoreTransactions, ocr, clock, remote,
                 inserts, commits, deletes, events>>

\* the expenses fetch resolves with an error: throw, caught at the end of
\* loadTransactions
ExpensesFailed(l) ==
  /\ l.pc = "expenses"
  /\ loads' = loads (-) One(l)
  /\ isLoadingMore' = FlagAfter(l)
  /\ UNCHANGED <<configured, overview, budgeting, manualAmount, capture, credential, mounted, cache, user, transactionsList, hasMoreTransactions, ocr,
                 clock, remote, inserts, commits, deletes, events>>

\* the expenses fetch resolves with a page; the second fetch is issued
ExpensesLoaded(l) ==
  /\ l.pc = "expenses"
  /\ loads' = (loads (-) One(l)) (+)
       One([l EXCEPT !.pc = "transactions",
                     !.expensesData =
                        Range(OrderRows(expenses, "transaction_at"), l.offset)])
  /\ UNCHANGED <<configured, overview, budgeting, manualAmount, capture, credential, mounted, cache, user, transactionsList, paging, ocr, clock,
                 remote, inserts, commits, deletes, events>>

\* the second fetch rejects (an exception, not an error result): caught
MpThrew(l) ==
  /\ l.pc = "transactions"
  /\ loads' = loads (-) One(l)
  /\ isLoadingMore' = FlagAfter(l)
  /\ UNCHANGED <<configured, overview, budgeting, manualAmount, capture, credential, mounted, cache, user, transactionsList, hasMoreTransactions, ocr,
                 clock, remote, inserts, commits, deletes, events>>

\* the second fetch resolves, with a page or with an error result (mpData is
\* null, logged): map, sort, set hasMore, set the ledger
MpResolved(l, mpError) ==
  /\ l.pc = "transactions"
  /\ LET mpData == IF mpError THEN <<>>
                   ELSE Range(OrderRows(mpRows, "received_at"), l.offset)
         mappedExpenses == MappedExpenses(l.expensesData)
         mappedMp == MappedMp(mpData)
         allTransactions == AllTransactions(mappedExpenses, mappedMp)
     IN  /\ hasMoreTransactions' = HasMore(mappedExpenses, mappedMp)
         /\ transactionsList' = Merged(transactionsList, l.reset, allTransactions)
  /\ loads' = loads (-) One(l)
  /\ isLoadingMore' = FlagAfter(l)
  /\ WriteThrough
  /\ UNCHANGED <<configured, overview, budgeting, manualAmount, capture, credential, mounted, user, ocr, clock, remote, inserts, commits,
                 deletes, events>>

----------------------------------------------------------------------------
(* deleteExpense                                                           *)

\* a removal that would take the newest transaction whatever the id (what
\* C10 excludes)
DropNewest(prev, expenseId) == Tail(prev)

\* prev.filter(item => item.id !== expenseId)
FilterOut(prev, expenseId) == WithoutIds(prev, {expenseId})

\* the click: the local removal, then the remote delete is issued (online)
DeleteExpense(expenseId) ==
  /\ AppScreen
  /\ UserEvent
  /\ expenseId \in Ids(transactionsList)
  /\ transactionsList' = FilterOut(transactionsList, expenseId)
  /\ deletes' = IF Online THEN deletes \cup {expenseId} ELSE deletes
  /\ LET Note(l) == [l EXCEPT !.deleted = @ \cup {expenseId}]
     IN  loads' = BagOfAll(Note, loads)
  /\ WriteThrough
  /\ UNCHANGED <<configured, overview, budgeting, manualAmount, capture, credential, mounted, user, paging, ocr, clock, remote, inserts,
                 commits>>

\* .from('expenses').delete().eq('id', expenseId): removes the row of that
\* id, if the collection has one
RemoteDelete(rows, expenseId) == {r \in rows : ToString(r.id) # expenseId}

\* the remote delete resolves: done, or failed (error result or exception,
\* both only logged)
DeleteResolved(expenseId, ok) ==
  /\ expenseId \in deletes
  /\ deletes' = deletes \ {expenseId}
  /\ expenses' = IF ok THEN RemoteDelete(expenses, expenseId) ELSE expenses
  /\ UNCHANGED <<configured, overview, budgeting, manualAmount, capture, credential, mounted, cache, user, transactionsList, paging, ocr, clock,
                 mpRows, nextId, loads, inserts, commits, events>>

----------------------------------------------------------------------------
(* addManualExpense                                                        *)

\* an insert that keeps the newest of the items only
PrependNewest(items, prev) ==
  SortByDate((IF items = <<>> THEN <<>> ELSE <<Head(items)>>) \o prev)

\* setTransactionsList(prev => [...items, ...prev].sort(byDateDesc))
Prepend(items, prev) == SortByDate(items \o prev)

\* the day the date picker is set to: an earlier day, among the days of the
\* stored rows
ManualDates == {D(2)}

\* what the form holds at Save: a description, which is blank here, and an
\* amount, by its characters -- the field keeps digits and one point only,
\* so the one text it can hold that is no number is the point alone
ManualLabel == "Transaction"
ManualAmount == <<"1", "0">>
NoAmount == <<".">>
ManualAmounts == {ManualAmount, NoAmount}

\* a test that lets every amount through
AlwaysFinite(chars) == TRUE

\* isFinite(Number(manualAmount))
IsFinite(chars) == ~TextIsNaN(chars)

\* normalized = -Math.abs(amountNumber)
Normalized(amountNumber) == -Abs(amountNumber)

\* fallbackInsert: id: `${Date.now()}`
FallbackItem(now, manualDate, normalized) ==
  [id |-> ToString(now), label |-> ManualLabel,
   amount |-> normalized, date |-> manualDate]

\* the click on Save, the amount field holding typed: an amount that is
\* not finite is refused (alert) and nothing else happens; otherwise, online
\* the insert is issued, and offline the item is inserted locally and the
\* form reset
AddManualExpense(manualDate, typed) ==
  /\ UserEvent
  /\ AppScreen
  /\ IF ~IsFinite(typed)
       THEN /\ manualAmount' = typed
            /\ UNCHANGED <<clock, inserts, transactionsList, cache>>
       ELSE /\ clock' = clock + 1
            /\ IF Online
                 THEN /\ inserts' = inserts (+)
                           One([label |-> ManualLabel,
                                amount |-> Normalized(TextNumber(typed)),
                                date |-> manualDate])
                      /\ manualAmount' = typed
                      /\ UNCHANGED <<transactionsList, cache>>
                 ELSE /\ transactionsList' =
                           Prepend(<<FallbackItem(clock', manualDate,
                                       Normalized(TextNumber(typed)))>>,
                                   transactionsList)
                      /\ WriteThrough
                      /\ manualAmount' = <<>>
                      /\ UNCHANGED inserts
  /\ UNCHANGED <<configured, overview, budgeting, capture, credential, mounted, user,
                 paging, ocr, remote, loads, commits, deletes>>

\* the row the store keeps for an insert
StoredRow(id, item) ==
  [id |-> id, label |-> item.label, amount |-> item.amount,
   transaction_at |-> item.date]

\* the record made of the row an insert returns: id: String(data.id), label,
\* amount: Number(data.amount), date from data.transaction_at
SavedItem(row) ==
  [id |-> ToString(row.id), label |-> row.label, amount |-> row.amount,
   date |-> row.transaction_at]

\* the insert resolves.  ok: the store has persisted the row under a new id
\* and the returned record is inserted; otherwise (error result or
\* exception: alert, then) fallbackInsert; then the form is reset
InsertResolved(i, ok) ==
  /\ inserts' = inserts (-) One(i)
  /\ IF ok
       THEN /\ expenses' = expenses \cup {StoredRow(nextId, i)}
            /\ nextId' = nextId + 1
            /\ transactionsList' =
                 Prepend(<<SavedItem(StoredRow(nextId, i))>>, transactionsList)
            /\ UNCHANGED clock
       ELSE /\ clock' = clock + 1
            /\ transactionsList' =
                 Prepend(<<FallbackItem(clock', i.date, i.amount)>>,
                         transactionsList)
            /\ UNCHANGED <<expenses, nextId>>
  /\ WriteThrough
  /\ manualAmount' = <<>>
  /\ UNCHANGED <<configured, overview, budgeting, capture, credential, mounted, user, paging, ocr, mpRows, loads, commits,
                 deletes, events>>

----------------------------------------------------------------------------
(* Receipt pipeline: staging and addOcrExpenses                            *)

\* what an extraction returns: item descriptions, their price, and the
\* date of the receipt
Receipts ==
  { [descriptions |-> <<"a", "a">>, price |-> 4, date |-> NoReceiptDate],
    [descriptions |-> <<"a", "b">>, price |-> 0, date |-> IsoDay(2)],
    [descriptions |-> <<"a">>, price |-> -4, date |-> JunkDate] }

\* a guard that rejects no selection
NeverRejected == FALSE

\* the guard of handleFileUpload: no credential, the selection is rejected
\* (alert, the settings modal opens)
NoCredential == ~geminiApiKey

\* handleFileUpload up to its first await, for a file selected in the menu
SelectImage ==
  /\ UserEvent
  /\ AppScreen
  /\ ~isOcrModalVisible
  /\ IF NoCredential
       THEN /\ isSettingsModalVisible' = TRUE
            /\ UNCHANGED <<ocr, isOcrLoading, ocrError, scans>>
       ELSE /\ ocrError' = NoError
            /\ isOcrLoading' = TRUE
            /\ isOcrModalVisible' = TRUE
            /\ pendingItems' = <<>>
            /\ scans' = scans + 1
            /\ UNCHANGED isSettingsModalVisible
  /\ UNCHANGED <<configured, overview, budgeting, manualAmount, credential, mounted, cache, user,
                 transactionsList, paging, clock, remote, loads, inserts,
                 commits, deletes>>

\* how an extraction fails, and the message set for it: no items in the
\* response, a response that is no JSON, an error of the provider
Failures == {"empty", "unparsable", "provider"}
Message(failure) ==
  CASE failure = "empty" -> "No items detected. Try uploading a clearer image."
    [] failure = "unparsable" -> "Could not parse receipt items. Please try again."
    [] OTHER -> "API error"

\* itemsWithDate: every item with the date of the receipt
ItemsWithDate(receipt) ==
  [i \in 1..Len(receipt.descriptions) |->
     [description |-> receipt.descriptions[i],
      price |-> receipt.price,
      date |-> receipt.date]]

\* the extraction returns items: they are staged; finally the loading flag
\* is cleared
StageItems(itemsWithDate) ==
  /\ scans > 0
  /\ scans' = scans - 1
  /\ pendingItems' = itemsWithDate
  /\ isOcrLoading' = FALSE
  /\ UNCHANGED <<configured, overview, budgeting, manualAmount, credential, ocrError, isOcrModalVisible,
                 isSettingsModalVisible, mounted, cache, user, transactionsList, paging, clock, remote, loads,
                 inserts, commits, deletes, events>>

ScanReturned(receipt) == StageItems(ItemsWithDate(receipt))

\* the extraction fails: the message is set; finally the loading flag is
\* cleared
ScanFailed(failure) ==
  /\ scans > 0
  /\ scans' = scans - 1
  /\ ocrError' = Message(failure)
  /\ isOcrLoading' = FALSE
  /\ UNCHANGED <<configured, overview, budgeting, manualAmount, credential, ocr, isSettingsModalVisible, mounted,
                 cache, user,
                 transactionsList, paging, clock, remote, loads, inserts,
                 commits, deletes, events>>

\* the close button and overlay of the settings modal
CloseSettingsModal ==
  /\ UserEvent
  /\ isSettingsModalVisible
  /\ isSettingsModalVisible' = FALSE
  /\ UNCHANGED <<configured, overview, budgeting, manualAmount, credential, ocr, isOcrLoading, ocrError, scans,
                 mounted, cache, user, transactionsList, paging, clock, remote,
                 loads, inserts, commits, deletes>>

\* the modal's close button and overlay: setOcrModalVisible(false)
CloseOcrModal ==
  /\ UserEvent
  /\ isOcrModalVisible
  /\ isOcrModalVisible' = FALSE
  /\ UNCHANGED <<configured, overview, budgeting, manualAmount, capture, credential, mounted, cache, user, transactionsList, paging, pendingItems,
                 clock, remote, loads, inserts, commits, deletes>>

\* item.date ? new Date(item.date + 'T12:00:00') : new Date()
TransactionDate(date, now) ==
  CASE date.k = "null" -> D(now)
    [] date.k = "iso" -> D(date.day)
    [] OTHER -> InvalidDate

\* id: `${Date.now()}-${item.description}`
OcrId(now, description) == ToString(now) \o "-" \o description

\* items committed with the price as the amount
NewTransactionsSigned(items, now) ==
  [i \in 1..Len(items) |->
     [id |-> OcrId(now, items[i].description),
      label |-> items[i].description,
      amount |-> items[i].price,
      date |-> TransactionDate(items[i].date, now)]]

\* newTransactions = pendingItems.map(...)
NewTransactions(items, now) ==
  [i \in 1..Len(items) |->
     [id |-> OcrId(now, items[i].description),
      label |-> items[i].description,
      amount |-> -Abs(items[i].price),
      date |-> TransactionDate(items[i].date, now)]]

\* transactionDate.toISOString() throws a RangeError on an Invalid Date
InsertsThrow(newTransactions) ==
  \E i \in 1..Len(newTransactions) : ~HasTime(newTransactions[i])

\* a commit that closes the modal and keeps the staged items
EndCommitKeepsItems ==
  /\ UNCHANGED pendingItems
  /\ isOcrModalVisible' = FALSE

\* the last two statements of addOcrExpenses, after either branch:
\* setPendingItems([]); setOcrModalVisible(false)
EndCommit ==
  /\ pendingItems' = <<>>
  /\ isOcrModalVisible' = FALSE

\* the click on Add as Expenses, shown when the modal is not loading: online
\* the batch insert is issued (unless
\* building it throws, which the catch turns into the local insert);
\* otherwise the items are inserted locally
AddOcrExpenses ==
  /\ UserEvent
  /\ AppScreen
  /\ isOcrModalVisible
  /\ ~isOcrLoading
  /\ clock' = clock + 1
  /\ LET newTransactions == NewTransactions(pendingItems, clock')
     IN  IF Online /\ ~InsertsThrow(newTransactions)
           THEN /\ commits' = commits \cup {newTransactions}
                /\ UNCHANGED <<transactionsList, cache, ocr>>
           ELSE /\ transactionsList' = Prepend(newTransactions, transactionsList)
                /\ WriteThrough
                /\ EndCommit
                /\ UNCHANGED commits
  /\ UNCHANGED <<configured, overview, budgeting, manualAmount, capture, credential, mounted, user, paging, remote, loads, inserts, deletes>>

\* savedTransactions = data.map(row => ({ id: String(row.id), ... })) for
\* rows stored under the ids first, first + 1, ...
SavedTransactions(newTransactions, first) ==
  [i \in 1..Len(newTransactions) |->
     SavedItem(StoredRow(first + i - 1, newTransactions[i]))]

\* the batch insert resolves.  ok: the store has persisted every row under a
\* new id and the returned records are inserted; otherwise (error result or
\* exception) the local ones.  Then the staged items are cleared and the
\* modal closed
CommitResolved(c, ok) ==
  /\ c \in commits
  /\ commits' = commits \ {c}
  /\ IF ok
       THEN /\ expenses' = expenses \cup
                 {StoredRow(nextId + i - 1, c[i]) : i \in 1..Len(c)}
            /\ nextId' = nextId + Len(c)
            /\ transactionsList' =
                 Prepend(SavedTransactions(c, nextId), transactionsList)
       ELSE /\ transactionsList' = Prepend(c, transactionsList)
            /\ UNCHANGED <<expenses, nextId>>
  /\ EndCommit
  /\ WriteThrough
  /\ UNCHANGED <<configured, overview, budgeting, manualAmount, capture, credential, mounted, user, paging, clock, mpRows, loads, inserts,
                 deletes, events>>

----------------------------------------------------------------------------
(* Specification                                                           *)

Next ==
  \/ Mount
  \/ \E u \in Users : RestoreSession(u)
  \/ \E u \in Users : SignIn(u)
  \/ SignOut
  \/ LoadMore
  \/ \E l \in BagToSet(loads) : ExpensesFailed(l)
  \/ \E l \in BagToSet(loads) : ExpensesLoaded(l)
  \/ \E l \in BagToSet(loads) : MpThrew(l)
  \/ \E l \in BagToSet(loads), mpError \in BOOLEAN : MpResolved(l, mpError)
  \/ \E id \in Ids(transactionsList) : DeleteExpense(id)
  \/ \E id \in deletes, ok \in BOOLEAN : DeleteResolved(id, ok)
  \/ \E d \in ManualDates : AddManualExpense(d, ManualAmount)
  \/ \E i \in BagToSet(inserts), ok \in BOOLEAN : InsertResolved(i, ok)
  \/ \E outcome \in KeyOutcomes : KeyLoaded(outcome)
  \/ SaveGeminiApiKey
  \/ SelectImage
  \/ CloseSettingsModal
  \/ \E r \in Receipts : ScanReturned(r)
  \/ \E f \in Failures : ScanFailed(f)
  \/ CloseOcrModal
  \/ AddOcrExpenses
  \/ \E c \in commits, ok \in BOOLEAN : CommitResolved(c, ok)

Spec == Init /\ [][Next]_vars

----------------------------------------------------------------------------
(* The ledger alone: session, loads, paging, manual entries and deletes,   *)
(* with the credential and the capture at rest                             *)

LedgerNext ==
  \/ Mount
  \/ \E u \in Users : RestoreSession(u)
  \/ \E u \in Users : SignIn(u)
  \/ SignOut
  \/ LoadMore
  \/ \E l \in BagToSet(loads) : ExpensesFailed(l)
  \/ \E l \in BagToSet(loads) : ExpensesLoaded(l)
  \/ \E l \in BagToSet(loads) : MpThrew(l)
  \/ \E l \in BagToSet(loads), mpError \in BOOLEAN : MpResolved(l, mpError)
  \/ \E id \in Ids(transactionsList) : DeleteExpense(id)
  \/ \E id \in deletes, ok \in BOOLEAN : DeleteResolved(id, ok)
  \/ \E d \in ManualDates : AddManualExpense(d, ManualAmount)
  \/ \E i \in BagToSet(inserts), ok \in BOOLEAN : InsertResolved(i, ok)

LedgerSpec == Init /\ [][LedgerNext]_vars

----------------------------------------------------------------------------
(* Receipt capture, from the credential to the commit of the staged items, *)
(* beside the session and the loads that fill the ledger                   *)

ReceiptNext ==
  \/ Mount
  \/ \E u \in Users : RestoreSession(u)
  \/ \E u \in Users : SignIn(u)
  \/ SignOut
  \/ \E l \in BagToSet(loads) : ExpensesLoaded(l)
  \/ \E l \in BagToSet(loads), mpError \in BOOLEAN : MpResolved(l, mpError)
  \/ \E outcome \in KeyOutcomes : KeyLoaded(outcome)
  \/ SaveGeminiApiKey
  \/ SelectImage
  \/ CloseSettingsModal
  \/ \E r \in Receipts : ScanReturned(r)
  \/ \E f \in Failures : ScanFailed(f)
  \/ CloseOcrModal
  \/ AddOcrExpenses
  \/ \E c \in commits, ok \in BOOLEAN : CommitResolved(c, ok)

ReceiptSpec == Init /\ [][ReceiptNext]_vars

----------------------------------------------------------------------------
(* scanReceiptWithGemini: from the text of the provider's response to the  *)
(* staged items, and the edits of the review modal                         *)

\* the ids of categoryMapping and the icon of each
CategoryIds ==
  {"utilities-bills", "food-dining", "transportation", "shopping-clothing",
   "health-wellness", "recreation-entertainment", "financial-obligations",
   "savings-investments", "miscellaneous-other"}
IconOf(id) ==
  CASE id = "utilities-bills" -> "Zap"
    [] id = "food-dining" -> "Coffee"
    [] id = "transportation" -> "Truck"
    [] id = "shopping-clothing" -> "ShoppingBag"
    [] id = "health-wellness" -> "Heart"
    [] id = "recreation-entertainment" -> "Film"
    [] id = "financial-obligations" -> "CreditCard"
    [] id = "savings-investments" -> "TrendingUp"
    [] OTHER -> "MoreHorizontal"

\* categoryMapping[key] is truthy, and the icon of what is found
InCategoryMapping(key) == key \in CategoryIds \cup InheritedNames
MappingIcon(key) == IF key \in CategoryIds THEN IconOf(key) ELSE Undefined

\* a field of an item of the response: absent, a number or a string (a
\* price string by its characters)
NoField == [k |-> "none"]
Num(n) == [k |-> "num", n |-> n]
Str(chars) == [k |-> "str", chars |-> chars]

\* Number(value) || 0, for a field of the response
NumberOrZero(value) ==
  CASE value.k = "num" -> value.n
    [] value.k = "str" ->
         IF TextIsNaN(value.chars) THEN 0 ELSE TextNumber(value.chars)
    [] OTHER -> 0

\* the item made of one item of the response, at position index
ExtractItem(item, now, index) ==
  LET categoryId ==
        IF item.category.k = "str" /\ item.category.chars # ""
           /\ InCategoryMapping(item.category.chars)
          THEN item.category.chars
          ELSE "miscellaneous-other"
  IN  [id |-> "ocr-" \o ToString(now) \o "-" \o ToString(index - 1),
       description |->
         IF item.description.k = "str" /\ item.description.chars # ""
           THEN item.description.chars ELSE "Item",
       price |-> NumberOrZero(item.price),
       category |-> categoryId,
       categoryIcon |-> MappingIcon(categoryId)]

\* the text of a response, in pieces: prose, the braces, and between braces
\* the members of an object
Prose == [k |-> "prose"]
Open == [k |-> "{"]
Close == [k |-> "}"]
Members(item) == [k |-> "members", items |-> <<item>>, date |-> NoReceiptDate]
Positions(text, piece) == {i \in 1..Len(text) : text[i].k = piece}
Least(set) == CHOOSE x \in set : \A y \in set : x <= y
Greatest(set) == CHOOSE x \in set : \A y \in set : y <= x

\* textContent.match(/\{[\s\S]*\}/): from the first opening brace to the
\* last closing brace after it; without a match the text itself
JsonStr(text) ==
  LET opens == Positions(text, "{")
      closes == Positions(text, "}")
  IN  IF opens = {} \/ closes = {} \/ Greatest(closes) < Least(opens)
        THEN text
        ELSE SubSeq(text, Least(opens), Greatest(closes))

\* JSON.parse of that string succeeds on one object, with members or empty
Parses(jsonStr) ==
  \/ jsonStr = <<Open, Close>>
  \/ Len(jsonStr) = 3 /\ jsonStr[1] = Open /\ jsonStr[3] = Close
       /\ jsonStr[2].k = "members"
ParsedItems(jsonStr) == IF Len(jsonStr) = 3 THEN jsonStr[2].items ELSE <<>>
ParsedDate(jsonStr) ==
  IF Len(jsonStr) = 3 THEN jsonStr[2].date ELSE NoReceiptDate

\* the items scanReceiptWithGemini returns for a text it can parse
ExtractedItems(text, now) ==
  LET items == ParsedItems(JsonStr(text))
  IN  [i \in 1..Len(items) |-> ExtractItem(items[i], now, i)]

\* itemsWithDate of handleFileUpload
Dated(items, date) ==
  [i \in 1..Len(items) |->
     [id |-> items[i].id, description |-> items[i].description,
      price |-> items[i].price, category |-> items[i].category,
      categoryIcon |-> items[i].categoryIcon, date |-> date]]

\* the extraction resolves with the text of the response
ScanResponded(text) ==
  IF ~Parses(JsonStr(text)) THEN ScanFailed("unparsable")
  ELSE IF ExtractedItems(text, clock) = <<>> THEN ScanFailed("empty")
  ELSE StageItems(Dated(ExtractedItems(text, clock),
                        ParsedDate(JsonStr(text))))

\* the category select of a staged item: one of the options, which are the
\* entries of categoryMapping
EditCategory(index, catId) ==
  /\ UserEvent
  /\ isOcrModalVisible
  /\ ~isOcrLoading
  /\ index \in 1..Len(pendingItems)
  /\ pendingItems' =
       [pendingItems EXCEPT
          ![index].category = catId,
          ![index].categoryIcon =
            IF InCategoryMapping(catId) THEN MappingIcon(catId)
            ELSE MappingIcon("miscellaneous-other")]
  /\ UNCHANGED <<configured, overview, budgeting, manualAmount, capture, credential, isOcrModalVisible, mounted,
                 cache, user, transactionsList, paging, clock, remote, loads,
                 inserts, commits, deletes>>

\* e.target.value.replace(/[^0-9.]/g, '')
RECURSIVE Stripped(_)
Stripped(chars) ==
  IF chars = <<>> THEN <<>>
  ELSE IF Head(chars) \in Digits \cup {"."}
         THEN <<Head(chars)>> \o Stripped(Tail(chars))
         ELSE Stripped(Tail(chars))

\* the price input of a staged item: Number(stripped) || 0
EditPrice(index, typed) ==
  /\ UserEvent
  /\ isOcrModalVisible
  /\ ~isOcrLoading
  /\ index \in 1..Len(pendingItems)
  /\ pendingItems' =
       [pendingItems EXCEPT
          ![index].price = NumberOrZero(Str(Stripped(typed)))]
  /\ UNCHANGED <<configured, overview, budgeting, manualAmount, capture, credential, isOcrModalVisible, mounted,
                 cache, user, transactionsList, paging, clock, remote, loads,
                 inserts, commits, deletes>>

\* the items a response may hold: description, price and category each
\* absent or given, the price also as zero, negative or no number, the
\* category also unknown to categoryMapping
ResponseItems ==
  [ description : {NoField, Str("milk")},
    price : {NoField, Num(0), Num(0 - 4), Num(4), Str(<<"4">>),
             Str(<<"a", "b">>)},
    category : {NoField, Str("food-dining"), Str("pets"),
                Str("constructor")} ]
Bread == [description |-> Str("bread"), price |-> Num(9), category |-> NoField]

\* the texts of a response: one object, bare or wrapped in prose, followed
\* by nothing, by prose with a brace or by a second object; an empty object;
\* prose alone
Responses ==
  UNION { { <<Open, Members(item), Close>>,
            <<Prose, Open, Members(item), Close, Prose>> } :
          item \in ResponseItems }
  \cup { <<Prose, Open, Members(Bread), Close, Prose, Close, Prose>>,
          <<Prose, Open, Members(Bread), Close, Prose, Open, Members(Bread),
            Close>>,
          <<Open, Close>>,
          <<Prose>> }

\* what is typed into the price input
TypedPrices ==
  { <<>>, <<"7">>, <<"-", "3">>, <<"a">>, <<"1", ".", "2", ".", "3">> }

ExtractionNext ==
  \/ Mount
  \/ \E u \in Users : RestoreSession(u)
  \/ \E outcome \in KeyOutcomes : KeyLoaded(outcome)
  \/ SaveGeminiApiKey
  \/ SelectImage
  \/ \E text \in Responses : ScanResponded(text)
  \/ \E i \in 1..Len(pendingItems), catId \in CategoryIds :
       EditCategory(i, catId)
  \/ \E i \in 1..Len(pendingItems), typed \in TypedPrices :
       EditPrice(i, typed)
  \/ CloseOcrModal

ExtractionSpec == Init /\ [][ExtractionNext]_vars

----------------------------------------------------------------------------
(* The budget modal and the budget list                                    *)

\* parseFloat(text), for a text of digits and at most one point: the digits
\* before the point, NaN when there is none (the texts here hold no digit
\* after the point)
RECURSIVE LeadingDigits(_)
LeadingDigits(chars) ==
  IF chars = <<>> \/ Head(chars) \notin Digits THEN <<>>
  ELSE <<Head(chars)>> \o LeadingDigits(Tail(chars))
ParseFloatIsNaN(chars) == LeadingDigits(chars) = <<>>
ParseFloat(chars) == DigitsValue(LeadingDigits(chars), 0)

\* a test that lets every limit through
AnyLimit(chars) == TRUE

\* isFinite(limit) && limit > 0
ValidLimit(chars) == ~ParseFloatIsNaN(chars) /\ ParseFloat(chars) > 0

\* the categories a budget is edited for, and what the limit field may
\* hold at Save: nothing, the point alone, zero, a limit
BudgetCategories == {"food-dining", "transportation"}
BudgetLimitInputs == {<<>>, <<".">>, <<"0">>, <<"8">>, <<"1", "0">>}

\* what an earlier session may have left under the budget key: nothing, or
\* the list it saved
SavedBudgets ==
  { Missing,
    StringifyBudgets(<<[categoryId |-> "food-dining", limit |-> 10]>>) }

\* Save Budget in the modal, a category chosen and the limit field holding
\* typed: a valid limit is saved, anything else is refused (alert)
SaveBudgetClicked(categoryId, typed) ==
  /\ UserEvent
  /\ AppScreen
  /\ IF ValidLimit(typed)
       THEN /\ budgets' = SaveBudget(budgets, categoryId, ParseFloat(typed))
            /\ SaveBudgets
       ELSE UNCHANGED budgeting
  /\ UNCHANGED <<configured, overview, manualAmount, capture, credential, ocr, mounted,
                 cache, user, transactionsList, paging, clock, remote, loads,
                 inserts, commits, deletes>>

\* the remove button of a budget of the list, or Remove Budget in the
\* modal: both are rendered for a category that has a budget
RemoveBudgetClicked(categoryId) ==
  /\ UserEvent
  /\ AppScreen
  /\ HasBudget(budgets, categoryId)
  /\ budgets' = RemoveBudget(budgets, categoryId)
  /\ SaveBudgets
  /\ UNCHANGED <<configured, overview, manualAmount, capture, credential, ocr, mounted,
                 cache, user, transactionsList, paging, clock, remote, loads,
                 inserts, commits, deletes>>

\* Math.round(n / d) for n >= 0 and d > 0: halves go up
Round(n, d) == (2 * n + d) \div (2 * d)

\* a percentage that is not clamped
Unclamped(spent, limit) == Round(spent * 100, limit)

\* Math.min(Math.round((spent / budget.limit) * 100), 100)
Percentage(spent, limit) == Min(Round(spent * 100, limit), 100)

\* spent > budget.limit
IsOverBudget(spent, limit) == spent > limit

\* Over budget by formatCurrency(spent - budget.limit)
OverBy(spent, limit) == spent - limit

\* what getCategorySpending may return for a category: the size of the sum
\* of its expenses of the month
Spendings == {0, 1, 3, 4, 8, 9, 10, 15, 20}

\* the budget modal, the manual form and the session around them
BudgetInit == Fresh /\ budgetStore \in SavedBudgets

BudgetNext ==
  \/ Mount
  \/ \E u \in Users : RestoreSession(u)
  \/ \E l \in BagToSet(loads) : ExpensesLoaded(l)
  \/ \E l \in BagToSet(loads), mpError \in BOOLEAN : MpResolved(l, mpError)
  \/ \E d \in ManualDates, typed \in ManualAmounts :
       AddManualExpense(d, typed)
  \/ \E i \in BagToSet(inserts), ok \in BOOLEAN : InsertResolved(i, ok)
  \/ \E c \in BudgetCategories, typed \in BudgetLimitInputs :
       SaveBudgetClicked(c, typed)
  \/ \E c \in BudgetCategories : RemoveBudgetClicked(c)

BudgetSpec == BudgetInit /\ [][BudgetNext]_vars

\* the operations on the ledger, over budgets an earlier session has saved
FrameInit == Fresh /\ budgetStore \in SavedBudgets \ {Missing}

FrameNext ==
  \/ Mount
  \/ \E u \in Users : RestoreSession(u)
  \/ SignOut
  \/ LoadMore
  \/ \E l \in BagToSet(loads) : ExpensesLoaded(l)
  \/ \E l \in BagToSet(loads), mpError \in BOOLEAN : MpResolved(l, mpError)
  \/ \E id \in Ids(transactionsList) : DeleteExpense(id)
  \/ \E id \in deletes, ok \in BOOLEAN : DeleteResolved(id, ok)
  \/ \E d \in ManualDates : AddManualExpense(d, ManualAmount)
  \/ \E i \in BagToSet(inserts), ok \in BOOLEAN : InsertResolved(i, ok)
  \/ KeyLoaded("found")
  \/ SelectImage
  \/ \E r \in Receipts : ScanReturned(r)
  \/ AddOcrExpenses
  \/ \E c \in commits, ok \in BOOLEAN : CommitResolved(c, ok)

FrameSpec == FrameInit /\ [][FrameNext]_vars

----------------------------------------------------------------------------
(* Pagination alone: the loads of a session, none of them failing, over    *)
(* collections nothing writes to                                           *)

PagingNext ==
  \/ Mount
  \/ \E u \in Users : RestoreSession(u)
  \/ LoadMore
  \/ \E l \in BagToSet(loads) : ExpensesLoaded(l)
  \/ \E l \in BagToSet(loads) : MpResolved(l, FALSE)

PagingSpec == Init /\ [][PagingNext]_vars

----------------------------------------------------------------------------
(* Load-more to its end: the loads of a session, failing or not.  Each     *)
(* fetch is a promise of the HTTP client, which settles (resolves with a   *)
(* page or an error result, or rejects): a load that is pending does not   *)
(* stay pending for ever, which is weak fairness of its continuation.      *)
(* Without a session loadTransactions returns at its guard, and the        *)
(* finally of loadMoreTransactions runs, before any other event can be     *)
(* handled: LoadMore is one step there.                                    *)

Settled ==
  \E l \in BagToSet(loads) :
    \/ ExpensesLoaded(l)
    \/ ExpensesFailed(l)
    \/ MpThrew(l)
    \/ \E mpError \in BOOLEAN : MpResolved(l, mpError)

LoadMoreNext ==
  \/ Mount
  \/ \E u \in Users : RestoreSession(u)
  \/ LoadMore
  \/ \E l \in BagToSet(loads) : ExpensesLoaded(l)
  \/ \E l \in BagToSet(loads) : ExpensesFailed(l)
  \/ \E l \in BagToSet(loads) : MpThrew(l)
  \/ \E l \in BagToSet(loads), mpError \in BOOLEAN : MpResolved(l, mpError)

LoadMoreSpec == Init /\ [][LoadMoreNext]_vars /\ WF_vars(Settled)

----------------------------------------------------------------------------
(* The credential alone, on a device two accounts sign in to               *)

Accounts == {"A", "B"}

CredentialNext ==
  \/ Mount
  \/ \E u \in Accounts : RestoreSession(u)
  \/ \E u \in Accounts : SignIn(u)
  \/ SignOut
  \/ SaveGeminiApiKey
  \/ \E u \in Accounts, outcome \in KeyOutcomes : KeyLoadedFor(u, outcome)

CredentialInit == Init /\ configured = TRUE

CredentialSpec == CredentialInit /\ [][CredentialNext]_vars

----------------------------------------------------------------------------
(* The overview: the analytics of a ledger snapshot                        *)

\* the first render of the overview: the four analytics of the ledger, or
\* the exception one of them throws
Analysed(now, monthsBack, limit) ==
  /\ mounted
  /\ AppScreen
  /\ overview = NotRendered
  /\ overview' =
       IF DayPatternsThrow(transactionsList) THEN Thrown
       ELSE [k |-> "shown", now |-> now, monthsBack |-> monthsBack,
             limit |-> limit,
             monthlyTrends |->
               GetMonthlySpendingData(transactionsList, monthsBack, now),
             monthComparison |-> GetMonthComparison(transactionsList, now),
             topMerchants |-> GetTopMerchants(transactionsList, limit),
             dayPatterns |-> GetDayOfWeekPatterns(transactionsList)]
  /\ UNCHANGED <<configured, budgeting, manualAmount, capture, credential,
                 ocr, mounted, cache, user, transactionsList, paging, clock,
                 remote, loads, inserts, commits, deletes, events>>

\* the instants of new Date() at a render: a day of November 2026, at
\* noon, and the first instant of 2027
Nows == {At(10, 6, TicksPerDay \div 2), At(12, 1, 0)}

\* the dates of the transactions of a snapshot: none, an Invalid Date, a
\* day of November, a day of October, and the last half second of October
SnapshotDates ==
  {NullDate, InvalidDate, D(At(10, 3, 20)), D(At(9, 15, 0)),
   D(LastInstant(9))}

\* the transactions of a snapshot
SnapshotItems ==
  [id : {"1"},
   label : {<<"a">>, <<Blank, "a">>, <<"b">>, <<"toString">>},
   amount : {-10, -4, 5},
   date : SnapshotDates]

\* the ledgers analysed: up to MaxSnapshot transactions, in the order the
\* ledger keeps
MaxSnapshot == 2
Snapshots ==
  {s \in UNION {[1..n -> SnapshotItems] : n \in 0..MaxSnapshot} :
     SortByDate(s) = s}

\* the parameters of the analytics: months back, and the size of the
\* ranking
MonthsBack == {1, 3}
Limits == {0, 1, 5}

\* the overview of an offline build whose ledger is a snapshot
AnalyticsInit ==
  /\ configured = FALSE
  /\ user = NoUser
  /\ transactionsList \in Snapshots
  /\ hasMoreTransactions = TRUE
  /\ isLoadingMore = FALSE
  /\ pendingItems = <<>>
  /\ isOcrModalVisible = FALSE
  /\ clock = Epoch
  /\ expenses = {}
  /\ mpRows = {}
  /\ nextId = 1
  /\ loads = EmptyBag
  /\ inserts = EmptyBag
  /\ commits = {}
  /\ deletes = {}
  /\ events = 0
  /\ mounted = TRUE
  /\ cache = Serialize(transactionsList)
  /\ isOcrLoading = FALSE
  /\ ocrError = NoError
  /\ scans = 0
  /\ isSettingsModalVisible = FALSE
  /\ geminiApiKey = FALSE
  /\ localKey = FALSE
  /\ keyLoads = EmptyBag
  /\ keyOf = NoUser
  /\ localOf = NoUser
  /\ manualAmount = <<>>
  /\ budgets = <<>>
  /\ budgetStore = StringifyBudgets(budgets)
  /\ overview = NotRendered

AnalyticsNext ==
  \E now \in Nows, monthsBack \in MonthsBack, limit \in Limits :
    Analysed(now, monthsBack, limit)

AnalyticsSpec == AnalyticsInit /\ [][AnalyticsNext]_vars

----------------------------------------------------------------------------
(* The mapping of message-derived records, over the rows the store may     *)
(* hold: a signed-in start with one such row, up to the first merge        *)

DocumentedIn ==
  { Text(<<"transfer", "received">>), Text(<<"payment", "received">>),
    Text(<<"refund", "received">>), Text(<<"deposit">>) }
DocumentedOut ==
  { Text(<<"transfer", "sent">>), Text(<<"payment", "sent">>),
    Text(<<"refund", "sent">>), Text(<<"withdrawal">>) }

MessageRows ==
  [ id : {1},
    received_at : {D(1)},
    amount : {-10, 10},
    type : DocumentedIn \cup DocumentedOut \cup {Null, Text(<<"other">>)},
    description : {Null, Text(<<>>), Text(<<"Juan">>)},
    category : {Null, Text(<<"food-dining">>), Text(<<"pets">>),
                Text(<<"constructor">>)},
    email_subject : {Null, Text(<<"Fwd:">>), Text(<<"Fwd:", "Tu", "pago">>),
                     Text(<<"Transferencia", "Enviada">>)} ]

MappingInit ==
  /\ configured = TRUE
  /\ user = NoUser
  /\ transactionsList = <<>>
  /\ hasMoreTransactions = TRUE
  /\ isLoadingMore = FALSE
  /\ pendingItems = <<>>
  /\ isOcrModalVisible = FALSE
  /\ clock = Epoch
  /\ expenses = {}
  /\ mpRows \in {{row} : row \in MessageRows}
  /\ nextId = 1
  /\ loads = EmptyBag
  /\ inserts = EmptyBag
  /\ commits = {}
  /\ deletes = {}
  /\ events = 0
  /\ mounted = FALSE
  /\ cache = Missing
  /\ isOcrLoading = FALSE
  /\ ocrError = NoError
  /\ scans = 0
  /\ isSettingsModalVisible = FALSE
  /\ geminiApiKey = FALSE
  /\ localKey = FALSE
  /\ keyLoads = EmptyBag
  /\ keyOf = NoUser
  /\ localOf = NoUser
  /\ manualAmount = <<>>
  /\ budgets = <<>>
  /\ budgetStore = Missing
  /\ overview = NotRendered

MappingNext ==
  \/ Mount
  \/ \E u \in Users : RestoreSession(u)
  \/ \E l \in BagToSet(loads) : ExpensesLoaded(l)
  \/ \E l \in BagToSet(loads), mpError \in BOOLEAN : MpResolved(l, mpError)

MappingSpec == MappingInit /\ [][MappingNext]_vars

----------------------------------------------------------------------------
(* Properties                                                              *)

NoDuplicateIds(s) == \A i, j \in 1..Len(s) : i # j => s[i].id # s[j].id

\* a load finishes with a merge (the second fetch resolved)
Merges(l) == \E mpError \in BOOLEAN : MpResolved(l, mpError)

\* C1: in every reachable state no two transactions of the ledger have the
\* same id.  The code gives every item of one receipt commit the id
\* `${Date.now()}-${description}`, so two staged items of the same
\* description get the same id: TLC finds this violated.
C1_UniqueIds == NoDuplicateIds(transactionsList)

\* C2: the ledger resulting from a loadPage merge contains no duplicate ids.
\* The merge adds no id twice, but a non-reset merge keeps prev as it is,
\* duplicates included (see C1): TLC finds this violated.
C2_MergeHasNoDuplicates ==
  [][\A l \in BagToSet(loads) :
       Merges(l) => NoDuplicateIds(transactionsList')]_vars

\* C3: the ledger is ordered non-increasing by timestamp, an undated
\* transaction counting as time zero.  Stated over the transactions that have
\* a timestamp; a committed receipt item with an unparsable date has none
\* (Invalid Date) and keeps the sort from ordering the others: TLC finds
\* this violated.
C3_OrderedByTimestamp ==
  \A i, j \in 1..Len(transactionsList) :
    (i < j /\ HasTime(transactionsList[i]) /\ HasTime(transactionsList[j]))
      => TimeKey(transactionsList[i]) >= TimeKey(transactionsList[j])

\* a request leaves the loader as it was: no fetch, no change of the ledger
\* or of hasMore
NoOp == UNCHANGED <<loads, transactionsList, hasMoreTransactions>>

\* C4 as stated: while a load is outstanding, any second load request (load
\* more, or the reset load of a user change) is a no-op.  TLC finds this
\* violated: the flag is set by loadMoreTransactions only.
C4_AnySecondLoadIsNoOp ==
  [][((LoadMore \/ \E u \in Users : SignIn(u)) /\ loads # EmptyBag)
       => NoOp]_vars

\* C4: while a load-more request is outstanding, a second load-more request
\* is a no-op.
C4_SecondLoadMoreIsNoOp ==
  [][(LoadMore /\ \E l \in BagToSet(loads) : l.more) => NoOp]_vars

\* a load-more request is outstanding after two user events and nothing but
\* that request has come of them, as when Load more is clicked again while
\* the first request is in flight
C4_Witness ==
  /\ events = 2
  /\ clock = Epoch
  /\ pendingItems = <<>>
  /\ deletes = {}
  /\ isLoadingMore
  /\ \E l \in BagToSet(loads) :
       /\ loads = One(l)
       /\ l.more
       /\ l.pc = "expenses"
       /\ l.offset = 0
  /\ transactionsList = <<>>

\* ids of the page the message-derived source holds for a load
MpPageIds(l) ==
  Ids(MappedMp(Range(OrderRows(mpRows, "received_at"), l.offset)))

ExpensesPageIds(l) == Ids(MappedExpenses(l.expensesData))

Fails(l) == ExpensesFailed(l) \/ MpThrew(l)

\* C6: a load that fails totally leaves the ledger and hasMore as they were,
\* and the failure goes no further than the load: the call is over and the
\* flag of its caller cleared.
C6_TotalFailureChangesNothing ==
  [][\A l \in BagToSet(loads) :
       Fails(l) =>
         /\ UNCHANGED <<transactionsList, hasMoreTransactions>>
         /\ loads' = loads (-) One(l)
         /\ l.more => ~isLoadingMore']_vars

\* the first load has failed: the ledger is still empty and hasMore still set
C6_Witness ==
  /\ events = 0
  /\ user # NoUser
  /\ loads = EmptyBag
  /\ transactionsList = <<>>
  /\ hasMoreTransactions

\* C7: after a successful load, hasMore is true if and only if at least one
\* source returned exactly a full page of records.
C7_HasMoreIffAFullPage ==
  [][\A l \in BagToSet(loads), mpError \in BOOLEAN :
       MpResolved(l, mpError) =>
         (hasMoreTransactions' <=>
            \/ Len(l.expensesData) = ITEMS_PER_PAGE
            \/ ~mpError /\ Cardinality(MpPageIds(l)) = ITEMS_PER_PAGE)]_vars

\* the first load got a full page from one source and less from the other
C7_Witness ==
  /\ events = 0
  /\ user # NoUser
  /\ loads = EmptyBag
  /\ hasMoreTransactions
  /\ Len(transactionsList) = ITEMS_PER_PAGE + 1

Others(expenseId) ==
  LET Other(t) == t.id # expenseId
  IN  SelectSeq(transactionsList, Other)

\* C10: the delete removes the transaction of that id from the ledger before
\* the remote call has had any effect, leaves the others and their order,
\* and a failed remote delete does not restore it.
C10_DeleteIsLocalFirst ==
  [][(\A id \in Ids(transactionsList) :
        DeleteExpense(id) =>
          /\ transactionsList' = Others(id)
          /\ expenses' = expenses
          /\ Online => id \in deletes')
     /\
     (\A expenseId \in deletes :
        DeleteResolved(expenseId, FALSE) =>
          /\ transactionsList' = transactionsList
          /\ expenses' = expenses)]_vars

\* a manual transaction has left the ledger, others stay, and the remote
\* delete is still to resolve: the row is still stored
C10_Witness ==
  \E id \in deletes :
    /\ id \notin Ids(transactionsList)
    /\ transactionsList # <<>>
    /\ \E r \in expenses : ToString(r.id) = id

\* the key holds a valid, non-empty snapshot
ValidSnapshot(value) ==
  /\ value.k = "list"
  /\ value.items # <<>>
  /\ \A i \in 1..Len(value.items) :
       /\ value.items[i].k = "object"
       /\ DOMAIN value.items[i].fields = {"id", "label", "amount", "date"}

\* C11: started with a valid non-empty snapshot, the ledger equals that
\* snapshot once the effects of the first render have run.  TLC finds this
\* violated: the effect on [user] queues [] after the hydrated ledger, in the
\* same batch, and the cache effect overwrites the key with [].
C11_HydratedFromSnapshot ==
  [][(Mount /\ ValidSnapshot(cache))
       => Serialize(transactionsList') = cache]_vars

\* C12: once the app is mounted the key holds the serialization of the whole
\* current ledger, and nothing else.
C12_CacheIsTheLedger == mounted => cache = Serialize(transactionsList)

\* the ledger has been through several mutations, and a snapshot of an
\* earlier session has been replaced
C12_Witness ==
  /\ mounted
  /\ Len(transactionsList) > ITEMS_PER_PAGE
  /\ \E i \in 1..Len(transactionsList) : ~HasTime(transactionsList[i])
  /\ cache = Serialize(transactionsList)

\* the key holds no well-formed snapshot: nothing, no JSON, no array, or an
\* array with an entry that is no transaction
Malformed(value) == value.k # "list" \/ (value.items # <<>> /\ ~ValidSnapshot(value))

MappedAs(row, t) ==
  /\ row \in mpRows
  /\ \E i \in 1..Len(transactionsList) : transactionsList[i] = t
  /\ t.id = "mp_" \o ToString(row.id)

MappedFrom(row) ==
  \E i \in 1..Len(transactionsList) : MappedAs(row, transactionsList[i])

\* the row with the sign of the stored amount changed
Negated(row) == [row EXCEPT !.amount = -row.amount]

\* C14: the mapped amount of a message-derived record is minus the absolute
\* value of the stored amount when the record is classified outgoing and the
\* absolute value otherwise, and the record with the other sign maps to the
\* same amount.
C14_AmountSignIsForced ==
  \A row \in mpRows : \A i \in 1..Len(transactionsList) :
    MappedAs(row, transactionsList[i]) =>
      /\ IsOutgoing(row) => transactionsList[i].amount = -Abs(row.amount)
      /\ ~IsOutgoing(row) => transactionsList[i].amount = Abs(row.amount)
      /\ MapMp(Negated(row)).amount = transactionsList[i].amount

\* a payment_sent stored with amount 10 is in the ledger with amount -10, or
\* an incoming record stored negative is in the ledger positive
C14_Witness ==
  \E row \in mpRows : \E i \in 1..Len(transactionsList) :
    /\ MappedAs(row, transactionsList[i])
    /\ \/ /\ row.type = Text(<<"payment", "sent">>)
          /\ row.amount = 10
          /\ transactionsList[i].amount = -10
       \/ /\ row.type = Text(<<"deposit">>)
          /\ row.amount = -10
          /\ transactionsList[i].amount = 10

\* C15: a record of a type documented as IN is mapped to a positive amount,
\* one of a type documented as OUT to a negative amount.  TLC finds this
\* violated: payment_received includes 'payment' and is classified outgoing.
C15_DocumentedDirection ==
  \A row \in mpRows : \A i \in 1..Len(transactionsList) :
    MappedAs(row, transactionsList[i]) =>
      /\ row.type \in DocumentedIn => transactionsList[i].amount > 0
      /\ row.type \in DocumentedOut => transactionsList[i].amount < 0

\* the category is one of the catalog
Recognized(category) ==
  category \in {Text(<<"food-dining">>), Text(<<"transportation">>)}

DescriptionGiven(row) ==
  row.description.k = "text" /\ Join(row.description.words) # ""

\* C16: the label of a message-derived record is the first available of the
\* trimmed description, the label of a recognized category, the label of a
\* recognized type, the non-empty normalized subject, and 'Mercado Pago'.
C16_LabelByPriority ==
  \A row \in mpRows : \A i \in 1..Len(transactionsList) :
    MappedAs(row, transactionsList[i]) =>
      LET label == transactionsList[i].label
          d == DescriptionGiven(row)
          c == Recognized(row.category)
          t == HasTypeLabel(row.type)
          n == NormalizeEmailSubject(row.email_subject)
      IN  /\ d => label = Join(row.description.words)
          /\ (~d /\ c) => label = CategoryLabel(row.category)
          /\ (~d /\ ~c /\ t) => label = TypeLabel(row.type)
          /\ (~d /\ ~c /\ ~t /\ n # "") => label = n
          /\ (~d /\ ~c /\ ~t /\ n = "") => label = "Mercado Pago"

\* a record with a blank description, an unknown category and an unknown
\* type is labelled by its subject without the prefixes; one whose subject
\* is but a prefix gets the generic label
C16_Witness ==
  \E row \in mpRows : \E i \in 1..Len(transactionsList) :
    /\ MappedAs(row, transactionsList[i])
    /\ row.description = Text(<<>>)
    /\ row.category = Text(<<"pets">>)
    /\ row.type = Text(<<"other">>)
    /\ \/ /\ row.email_subject = Text(<<"Fwd:", "Tu", "pago">>)
          /\ transactionsList[i].label = "Pago"
       \/ /\ row.email_subject = Text(<<"Fwd:">>)
          /\ transactionsList[i].label = "Mercado Pago"



\* C17: an image selected while no OCR credential is set is rejected: the
\* review modal is not opened and the loading flag not set (both stay as they
\* were, false unless an earlier capture is under way), the staged items and
\* the ledger are unchanged and no extraction is started.
C17_NoCredentialNoCapture ==
  [][(SelectImage /\ ~geminiApiKey) =>
       /\ ~isOcrModalVisible'
       /\ isOcrLoading' = isOcrLoading
       /\ scans = 0 => ~isOcrLoading'
       /\ scans' = scans
       /\ UNCHANGED <<pendingItems, transactionsList, cache, ocrError, remote,
                      commits>>]_vars

\* a selection has been rejected (only a rejection opens the settings modal
\* here) and nothing of the capture has started
C17_Witness ==
  /\ isSettingsModalVisible
  /\ ~geminiApiKey
  /\ ~isOcrModalVisible
  /\ ~isOcrLoading
  /\ scans = 0

\* C18: when an extraction fails (no items, an unparsable response, an error
\* of the provider) the state after it has an error message and no staged
\* item, the loading flag is false, the failure has not closed the review
\* modal, and no extraction is started by it.
C18_FailureLeavesNoItems ==
  [][(\E f \in Failures : ScanFailed(f)) =>
       /\ ocrError' # NoError
       /\ pendingItems' = <<>>
       /\ isOcrModalVisible' = isOcrModalVisible
       /\ ~isOcrLoading'
       /\ scans' < scans]_vars

\* the labels and amounts of a list of transactions, with their number
RECURSIVE Postings(_)
Postings(list) ==
  IF list = <<>> THEN EmptyBag
  ELSE One([label |-> Head(list).label, amount |-> Head(list).amount])
         (+) Postings(Tail(list))

\* what the staged items are to become: the description as the label, the
\* price with a minus sign whatever its own sign
RECURSIVE Expenses(_)
Expenses(items) ==
  IF items = <<>> THEN EmptyBag
  ELSE One([label |-> Head(items).description,
            amount |-> IF Head(items).price < 0 THEN Head(items).price
                       ELSE 0 - Head(items).price])
         (+) Expenses(Tail(items))

\* C19: the commit of n staged items adds exactly n transactions to the
\* ledger, one per item, with the description as label and minus the absolute
\* price as amount: either at the click (local insert) or, online, when the
\* batch insert issued at the click for exactly these items has resolved.
C19_CommitAddsEveryItem ==
  [][/\ AddOcrExpenses =>
          IF commits' = commits
            THEN Postings(transactionsList') =
                   Postings(transactionsList) (+) Expenses(pendingItems)
            ELSE /\ transactionsList' = transactionsList
                 /\ \E c \in commits' \ commits :
                      /\ Len(c) = Len(pendingItems)
                      /\ Postings(c) = Expenses(pendingItems)
     /\ \A c \in commits, ok \in BOOLEAN :
          CommitResolved(c, ok) =>
            /\ Len(transactionsList') = Len(transactionsList) + Len(c)
            /\ Postings(transactionsList') =
                 Postings(transactionsList) (+) Postings(c)
            /\ \A i \in 1..Len(c) : c[i].amount <= 0]_vars

\* a receipt of two items has been committed through the store, beside a
\* transaction the ledger held before: both are in the ledger under the ids
\* of their rows, with the staged price 4 as the amount -4
C19_Witness ==
  /\ commits = {}
  /\ pendingItems = <<>>
  /\ ~isOcrModalVisible
  /\ \E i, j, k \in 1..Len(transactionsList) :
       /\ i # j
       /\ transactionsList[i].label = "a" /\ transactionsList[i].amount = -4
       /\ transactionsList[j].label = "a" /\ transactionsList[j].amount = -4
       /\ transactionsList[k].label # "a"
       /\ \E r1, r2 \in expenses :
            /\ ToString(r1.id) = transactionsList[i].id
            /\ ToString(r2.id) = transactionsList[j].id

\* the transactions of a list, with their number
RECURSIVE Records(_)
Records(list) ==
  IF list = <<>> THEN EmptyBag ELSE One(Head(list)) (+) Records(Tail(list))

\* C20: when the batch insert of a commit fails, or no store or user is
\* there (or building the batch throws), the very transactions made of the
\* staged items are inserted locally: the ledger after the step holds what
\* it held and each of them, the store is not changed, the staged list is
\* emptied and the modal closed.
C20_FailedCommitIsLocal ==
  [][/\ (/\ AddOcrExpenses
         /\ \/ ~configured
            \/ user = NoUser
            \/ \E i \in 1..Len(pendingItems) :
                 pendingItems[i].date.k \notin {"null", "iso"}) =>
          /\ Records(transactionsList') =
               Records(transactionsList) (+)
                 Records([i \in 1..Len(pendingItems) |->
                   [id |-> OcrId(clock', pendingItems[i].description),
                    label |-> pendingItems[i].description,
                    amount |-> 0 - Abs(pendingItems[i].price),
                    date |-> TransactionDate(pendingItems[i].date, clock')]])
          /\ UNCHANGED remote
          /\ pendingItems' = <<>>
          /\ ~isOcrModalVisible'
     /\ \A c \in commits :
          CommitResolved(c, FALSE) =>
            /\ Records(transactionsList') =
                 Records(transactionsList) (+) Records(c)
            /\ UNCHANGED remote
            /\ pendingItems' = <<>>
            /\ ~isOcrModalVisible']_vars

\* signed in, a receipt of two items with a readable date has been committed
\* and its batch insert has failed: the item "b" is in the ledger under the
\* id made at the click, which is the id of no stored row
C20_Witness ==
  /\ configured
  /\ user # NoUser
  /\ commits = {}
  /\ pendingItems = <<>>
  /\ ~isOcrModalVisible
  /\ \E k \in 1..Len(transactionsList) :
       /\ transactionsList[k].label = "b"
       /\ transactionsList[k].amount = 0
       /\ \A row \in expenses : ToString(row.id) # transactionsList[k].id

\* C21: every OCR commit ends with the staged list empty and the modal
\* closed: the step that ends it, be it the local insert at the click, the
\* batch insert resolving with the stored rows or the fallback after its
\* failure, leaves pendingItems empty and the modal not visible.
C21_CommitEndsCleared ==
  [][/\ (AddOcrExpenses /\ ~(configured /\ user # NoUser)) =>
          (pendingItems' = <<>> /\ ~isOcrModalVisible')
     /\ (AddOcrExpenses /\ transactionsList' # transactionsList) =>
          (pendingItems' = <<>> /\ ~isOcrModalVisible')
     /\ \A c \in commits, ok \in BOOLEAN :
          CommitResolved(c, ok) =>
            (pendingItems' = <<>> /\ ~isOcrModalVisible')]_vars

\* a commit of the receipt with the items "a" and "b" has ended on the
\* remote-success path: "b" is in the ledger under the id of its stored row
C21_Witness ==
  /\ commits = {}
  /\ pendingItems = <<>>
  /\ ~isOcrModalVisible
  /\ \E k \in 1..Len(transactionsList) :
       /\ transactionsList[k].label = "b"
       /\ \E row \in expenses :
            /\ row.label = "b"
            /\ ToString(row.id) = transactionsList[k].id

\* C22: staged items do not outlive their capture-review-commit cycle: in
\* every state where the review modal is not visible the staged list is
\* empty.
C22_IdleHasNoItems == ~isOcrModalVisible => pendingItems = <<>>

\* C23: at most one extraction is outstanding at any time.
C23_OneExtraction == scans <= 1

\* the modal shows the staged items for review
Reviewing == isOcrModalVisible /\ ~isOcrLoading /\ pendingItems # <<>>

\* C24: in every state of Reviewing the category of each staged item is one
\* of the ids of the catalog and its icon is the icon the catalog gives for
\* that category.
C24_CategoryOfTheCatalog ==
  Reviewing =>
    \A i \in 1..Len(pendingItems) :
      /\ pendingItems[i].category \in CategoryIds
      /\ pendingItems[i].categoryIcon = IconOf(pendingItems[i].category)

\* the place of the first object of a text: its opening brace, with no brace
\* before it, then its members and its closing brace (0 if there is none)
FirstObject(text) ==
  LET places == {i \in 1..(Len(text) - 2) :
                   /\ text[i] = Open
                   /\ text[i + 1].k = "members"
                   /\ text[i + 2] = Close
                   /\ \A j \in 1..(i - 1) : text[j] = Prose}
  IN  IF places = {} THEN 0 ELSE Least(places)

\* C25: for a response made of prose, a well-formed object and any further
\* text, the items of that first object are staged.
C25_FirstObjectIsStaged ==
  [][\A text \in Responses :
       (ScanResponded(text) /\ FirstObject(text) > 0) =>
         LET members == text[FirstObject(text) + 1]
         IN  pendingItems' =
               Dated([j \in 1..Len(members.items) |->
                        ExtractItem(members.items[j], clock, j)],
                     members.date)]_vars

\* C26: every staged item has a strictly positive price, right after the
\* extraction and after any edit of a price.
C26_PositivePrices ==
  \A i \in 1..Len(pendingItems) : pendingItems[i].price > 0

----------------------------------------------------------------------------
(* Validation, budgets                                                     *)

\* C27: a Save of the manual form whose amount is no finite number changes
\* neither the ledger, nor its snapshot, nor the amount field, and issues no
\* insert; a Save Budget whose limit is no number or is not above zero
\* leaves the budgets and what is saved of them unchanged
C27_RefusedBeforeAnyChange ==
  [][ /\ \A d \in ManualDates, typed \in ManualAmounts :
           AddManualExpense(d, typed) /\ TextIsNaN(typed)
             => /\ UNCHANGED <<transactionsList, cache, inserts, remote,
                               hasMoreTransactions, budgets>>
                /\ manualAmount' = typed
      /\ \A c \in BudgetCategories, typed \in BudgetLimitInputs :
           /\ SaveBudgetClicked(c, typed)
           /\ ParseFloatIsNaN(typed) \/ ParseFloat(typed) <= 0
           => UNCHANGED <<budgets, budgetStore, transactionsList>> ]_vars

\* a refused amount is in the field, over a ledger and budgets that exist
C27_Witness ==
  /\ manualAmount = NoAmount
  /\ transactionsList # <<>>
  /\ budgets # <<>>

\* the entries of a list for a category, in order
RECURSIVE EntriesOf(_, _)
EntriesOf(list, categoryId) ==
  IF list = <<>> THEN <<>>
  ELSE IF Head(list).categoryId = categoryId
         THEN <<Head(list)>> \o EntriesOf(Tail(list), categoryId)
         ELSE EntriesOf(Tail(list), categoryId)

\* C28: the budgets hold at most one budget for a category; a saved budget
\* leaves its category with the limit given, in place of any limit it had,
\* and the budgets of the other categories as they were; removing the
\* budget of a category that has none changes nothing
C28_OneBudgetPerCategory ==
  /\ [](\A c \in CategoryIds :
          /\ Len(EntriesOf(budgets, c)) <= 1
          /\ ~HasBudget(budgets, c) => RemoveBudget(budgets, c) = budgets)
  /\ [][\A c \in BudgetCategories, typed \in BudgetLimitInputs :
          /\ SaveBudgetClicked(c, typed)
          /\ ~ParseFloatIsNaN(typed)
          /\ ParseFloat(typed) > 0
          => /\ EntriesOf(budgets', c) =
                  <<[categoryId |-> c, limit |-> ParseFloat(typed)]>>
             /\ \A other \in CategoryIds \ {c} :
                  EntriesOf(budgets', other) = EntriesOf(budgets, other)
             /\ budgetStore' = StringifyBudgets(budgets')]_vars

\* two categories have a budget, one of them saved over an earlier limit
C28_Witness ==
  /\ events = 3
  /\ Len(budgets) = 2
  /\ \A i \in 1..2 : budgets[i].limit = 8

\* the whole percentage nearest to spent / limit * 100, the upper one of two
\* that are as near
Nearest(spent, limit) ==
  CHOOSE p \in 0..(100 * spent + 1) :
    /\ 2 * (100 * spent - p * limit) < limit
    /\ 2 * (p * limit - 100 * spent) <= limit

\* C29: for a budget of the list and any spending of its category, the
\* percentage shown is the nearest whole percentage of spent / limit, at
\* most 100, and lies in 0..100; the budget is shown as over budget exactly
\* when spent > limit, so that spent = limit shows 100 and no warning; and
\* the warning gives spent - limit
C29_PercentageAndWarning ==
  \A i \in 1..Len(budgets), spent \in Spendings :
    LET limit == budgets[i].limit
    IN /\ limit > 0
       /\ Percentage(spent, limit) = Min(Nearest(spent, limit), 100)
       /\ Percentage(spent, limit) \in 0..100
       /\ IsOverBudget(spent, limit) <=> spent > limit
       /\ IsOverBudget(spent, limit) => Percentage(spent, limit) = 100
       /\ spent = limit
            => Percentage(spent, limit) = 100 /\ ~IsOverBudget(spent, limit)
       /\ IsOverBudget(spent, limit)
            => /\ OverBy(spent, limit) > 0
               /\ limit + OverBy(spent, limit) = spent

\* a budget of 10 against a spending of 15 shows 100 percent, over budget
\* by 5, beside a budget of 8 whose spending of 1 shows 13 percent
C29_Witness ==
  /\ \E i \in 1..Len(budgets) :
       /\ budgets[i].limit = 10
       /\ 15 \in Spendings
       /\ Percentage(15, 10) = 100
       /\ IsOverBudget(15, 10)
       /\ OverBy(15, 10) = 5
  /\ \E i \in 1..Len(budgets) :
       /\ budgets[i].limit = 8
       /\ Percentage(1, 8) = 13

\* C30: no operation on the ledger -- the hydration from the snapshot, a
\* load with or without reset, a manual insert, the commit of staged items,
\* a delete, the reset on sign-out -- changes the budgets: what the budget
\* key holds stays as it was, the effects of the first render leave in the
\* state the budgets it holds, and no later step changes them
C30_LedgerLeavesBudgets ==
  [][ /\ budgetStore' = budgetStore
      /\ mounted => budgets' = budgets
      /\ ~mounted /\ mounted' => StringifyBudgets(budgets') = budgetStore
    ]_vars

\* the saved budgets are there after an insert or a commit and the reset
\* of the ledger on sign-out
C30_Witness ==
  /\ budgets # <<>>
  /\ clock > Epoch
  /\ configured
  /\ user = NoUser
  /\ transactionsList = <<>>
  /\ events > 1

----------------------------------------------------------------------------
(* Analytics                                                               *)

\* the sum of the expenses of the ledger dated within calendar month m
MonthExpenses(m) ==
  Abs(SumOf(SelectSeq(transactionsList,
                      LAMBDA t : /\ IsExpense(t)
                                 /\ t.date.k = "date"
                                 /\ MonthOf(t.date.t) = m)))

\* p is a whole number nearest to n / d
IsNearest(p, n, d) == 2 * Abs(n - p * d) <= d

\* C31: the comparison a render shows has current and previous equal to
\* the sums of the expenses dated within the current and the previous
\* calendar month, change = current - previous, changePercent the whole
\* percentage nearest to change / previous when previous > 0, and
\* changePercent = 0 when previous = 0
C31_MonthComparison ==
  overview.k = "shown" =>
    LET c == overview.monthComparison
        m == MonthOf(overview.now)
    IN /\ c.current = MonthExpenses(m)
       /\ c.previous = MonthExpenses(m - 1)
       /\ c.change = MonthExpenses(m) - MonthExpenses(m - 1)
       /\ MonthExpenses(m - 1) > 0
            => IsNearest(c.changePercent, 100 * c.change, MonthExpenses(m - 1))
       /\ MonthExpenses(m - 1) = 0 => c.changePercent = 0

\* the sum of the counts of the slots
RECURSIVE CountsOf(_)
CountsOf(slots) ==
  IF slots = <<>> THEN 0
  ELSE Head(slots).transactionCount + CountsOf(Tail(slots))

\* C32: every render of the overview has a day-of-week pattern of exactly
\* 7 slots, with dayIndex 0 to 6 in order, count and total not below zero,
\* the counts summing to the number of expenses that have a date, and the
\* mean of a slot being total / count, or 0 for an empty slot
C32_SevenWeekdaySlots ==
  overview.k # "none" =>
    /\ overview.k = "shown"
    /\ LET slots == overview.dayPatterns
       IN /\ Len(slots) = 7
          /\ \A j \in 1..7 :
               /\ slots[j].dayIndex = j - 1
               /\ slots[j].transactionCount >= 0
               /\ slots[j].totalAmount >= 0
               /\ IF slots[j].transactionCount = 0
                    THEN slots[j].averageAmount.n = 0
                    ELSE slots[j].averageAmount.n * slots[j].transactionCount
                           = slots[j].totalAmount * slots[j].averageAmount.d
          /\ CountsOf(slots) =
               Len(SelectSeq(transactionsList,
                             LAMBDA t : IsExpense(t) /\ t.date.k # "null"))

\* the expenses of the ledger whose trimmed label is name
OfMerchant(name) ==
  SelectSeq(transactionsList,
            LAMBDA t : IsExpense(t) /\ Trim(t.label) = name)

\* the names of the merchants of the ledger
MerchantNames ==
  {Trim(transactionsList[i].label) :
     i \in {j \in 1..Len(transactionsList) : IsExpense(transactionsList[j])}}

\* the most recent date among transactions, the null date when none of
\* them has a date
MostRecent(txs) ==
  IF \A i \in 1..Len(txs) : txs[i].date.k = "null" THEN NullDate
  ELSE CHOOSE d \in {txs[i].date : i \in 1..Len(txs)} :
         /\ d.k # "null"
         /\ \A i \in 1..Len(txs) :
              txs[i].date.k = "date" /\ d.k = "date" => txs[i].date.t <= d.t

\* C33: the ranking a render shows has at most limit entries, in
\* descending order of total; each entry has the sum of the absolute
\* amounts, the count and the most recent date of the expenses whose
\* trimmed label is its name; and no merchant of the ledger left out of it
\* has a larger total than one in it (so a ranking with room left leaves
\* no merchant out)
C33_MerchantRanking ==
  overview.k = "shown" =>
    LET top == overview.topMerchants
        named == {top[i].name : i \in 1..Len(top)}
    IN /\ Len(top) <= overview.limit
       /\ \A i \in 1..(Len(top) - 1) :
            top[i].totalAmount >= top[i + 1].totalAmount
       /\ \A i \in 1..Len(top) :
            /\ top[i].name \in MerchantNames
            /\ top[i].totalAmount = Abs(SumOf(OfMerchant(top[i].name)))
            /\ top[i].transactionCount = Len(OfMerchant(top[i].name))
            /\ (\A n \in 1..Len(OfMerchant(top[i].name)) :
                   OfMerchant(top[i].name)[n].date.k # "invalid")
                 => top[i].lastTransaction =
                      MostRecent(OfMerchant(top[i].name))
       /\ \A name \in MerchantNames \ named :
            /\ Len(top) = overview.limit
            /\ \A i \in 1..Len(top) :
                 Abs(SumOf(OfMerchant(name))) <= top[i].totalAmount

\* the transactions of the ledger dated within calendar month m
OfMonth(m) ==
  SelectSeq(transactionsList,
            LAMBDA t : t.date.k = "date" /\ MonthOf(t.date.t) = m)

\* C34: the trends a render shows have exactly monthsBack entries, for
\* consecutive calendar months from the oldest to the current one; each
\* entry has, over the transactions dated within its month, the sum of the
\* absolute values of the negative amounts, the sum of the positive
\* amounts and the number of transactions
C34_MonthlyTrends ==
  overview.k = "shown" =>
    LET trends == overview.monthlyTrends
        K == overview.monthsBack
        last == MonthOf(overview.now)
    IN /\ Len(trends) = K
       /\ \A j \in 1..K :
            LET m == last - (K - j)
            IN /\ trends[j].monthIndex = MonthIndex(m)
               /\ trends[j].year = YearOf(m)
               /\ trends[j].expenses =
                    Abs(SumOf(SelectSeq(OfMonth(m), IsExpense)))
               /\ trends[j].income = SumOf(SelectSeq(OfMonth(m), IsIncome))
               /\ trends[j].transactionCount = Len(OfMonth(m))

\* the transactions of the ledger dated from the start of the oldest month
\* of the trends to the end of the current month
InSpan ==
  SelectSeq(transactionsList,
            LAMBDA t :
              /\ t.date.k = "date"
              /\ MonthOf(t.date.t) \in
                   (MonthOf(overview.now) - (overview.monthsBack - 1))
                     ..MonthOf(overview.now))

\* the sum of the counts of the entries of the trends
RECURSIVE TrendCounts(_)
TrendCounts(trends) ==
  IF trends = <<>> THEN 0
  ELSE Head(trends).transactionCount + TrendCounts(Tail(trends))

\* C39: the months of the trends partition their span: the counts of the
\* entries sum to the number of transactions dated within the span, the
\* last second before a month boundary included
C39_MonthsPartitionTime ==
  overview.k = "shown" =>
    TrendCounts(overview.monthlyTrends) = Len(InSpan)

----------------------------------------------------------------------------
(* Pagination, commits, sessions                                           *)

\* C35: when the loads of a session are over and hasMore is false, the
\* ledger holds every record of both collections
C35_PaginationLoadsAll ==
  (user # NoUser /\ loads = EmptyBag /\ ~hasMoreTransactions)
    => /\ \A row \in expenses : MapExpense(row).id \in Ids(transactionsList)
       /\ \A row \in mpRows : MapMp(row).id \in Ids(transactionsList)

\* a commit of the items now staged is in flight
CommitInFlight ==
  \E c \in commits, now \in Epoch..clock :
    c = NewTransactions(pendingItems, now)

\* C36: while the batch insert of a commit of the staged items is in
\* flight, a further click on the commit button issues no second batch and
\* adds nothing to the ledger, so that each staged item reaches the store
\* and the ledger once
C36_CommittedOnce ==
  [][ CommitInFlight /\ pendingItems # <<>> /\ pendingItems' = pendingItems
        => commits' \subseteq commits /\ transactionsList' = transactionsList
    ]_vars

\* C37: in a build with accounts, while no user is signed in the ledger
\* and its snapshot stay empty: no step taken after the sign-out, the end
\* of a load started before it included, puts transactions into them
C37_SignedOutStaysEmpty ==
  [][ mounted /\ configured /\ user = NoUser /\ user' = NoUser
        => transactionsList' = <<>> /\ cache' = Serialize(<<>>) ]_vars


\* C38: with a user signed in and no credential load under way, the
\* credential in use, if there is one, is that user's own: read from the
\* user's settings row or saved by the user, never the one of another
\* account that used the device.
C38_CredentialIsTheUsersOwn ==
  (user # NoUser /\ keyLoads = EmptyBag /\ geminiApiKey) => keyOf = user


\* C40: whenever the in-flight flag of load-more is set it is cleared again
\* later, whether the load succeeds, fails at either fetch or returns at its
\* guard; and a load-more request made while hasMore is false starts no
\* load and leaves the flag alone.
C40_LoadMoreEnds ==
  /\ isLoadingMore ~> ~isLoadingMore
  /\ [][(LoadMore /\ ~hasMoreTransactions)
          => loads' = loads /\ isLoadingMore' = isLoadingMore]_vars
  /\ [][(LoadMore /\ ~Online) => loads' = loads /\ ~isLoadingMore']_vars

\* two load-more requests have been made on a session whose first page of
\* expenses was full, no load is pending, the flag is clear and hasMore is
\* false (only a finished load-more sets it so here)
C40_Witness ==
  /\ Cardinality(expenses) = MaxRows
  /\ events = 2
  /\ loads = EmptyBag
  /\ ~isLoadingMore
  /\ ~hasMoreTransactions

============================================================================


